---- MODULE Spec2Model ----
(***************************************************************************)
(* prism: a small image-processing DSL, its lowering to LLVM IR and the    *)
(* Processor that runs the generated function.                             *)
(*                                                                         *)
(* The generated function is modelled by what the IR emitted by            *)
(* codegen/lower.rs computes: one step per execution of the innermost loop *)
(* body (one pixel of one Func).  The Processor is modelled from           *)
(* codegen/processor.rs, the process-wide trace from tracing/.             *)
(***************************************************************************)
EXTENDS Integers, Sequences, FiniteSets, TLC

(***************************************************************************)
(* Bounds of the model.                                                    *)
(***************************************************************************)
\* Largest image width and height drawn for the single-invocation runs.
MaxW == 2
MaxH == 2
\* Number of process / process_with_tracing calls in one behaviour.
MaxCalls == 2
\* Largest number of ids created on one Trace, and of Actions logged to it.
MaxIds == 2
MaxActions == 2
\* Largest number of Funcs handed to Graph::new.
MaxFuncs == 2
MaxConst == 1
MaxBlurW == 3
MaxBlurH == 4
MaxBright == 3

(***************************************************************************)
(* State.                                                                  *)
(***************************************************************************)
VARIABLES
    TRACE,      \* static mut TRACE: Option<Trace>
    TRACE_IDS,  \* static mut TRACE_IDS: Option<HashMap<String, TraceId>>
    threads,    \* per thread: pc, the call in progress (cur), the last result
    kept,       \* an earlier result the caller still holds
    ncalls,     \* calls started so far
    built,      \* the last call of Graph::new: its arguments and what came of it
    tracer,     \* a Trace a caller uses directly, and what its calls were given and returned
    printed,    \* the last calls of pretty_print: their arguments and strings
    blurred     \* the last run of the handwritten blurs: the image and what they returned

vars == <<TRACE, TRACE_IDS, threads, kept, ncalls, built, tracer, printed, blurred>>

\* the thread of the caller, and a second thread of the same process
Threads == {"main", "other"}

\* the caller's thread
\* "idle", "running" (inside the generated function) or "crashed"
pc == threads["main"].pc
\* the call in progress: its Processor, arguments, buffers, position
cur == threads["main"].cur
\* what the last finished call returned, or its panic
result == threads["main"].result

(***************************************************************************)
(* Option<T>                                                               *)
(***************************************************************************)
None == [some |-> FALSE]
Some(v) == [some |-> TRUE, v |-> v]

(***************************************************************************)
(* i32 arithmetic as the LLVM instructions compute it (two's complement,   *)
(* wrapping).  TLC's integers are themselves 32 bits wide and trap on      *)
(* overflow, so the wrap is computed without leaving the i32 range.        *)
(***************************************************************************)
MaxI32 == 2147483647
MinI32 == (-MaxI32) - 1

\* LLVMBuildAdd on i32
add(a, b) ==
    IF b > 0 /\ a > MaxI32 - b THEN (a - MaxI32 - 1) + (b - MaxI32 - 1)
    ELSE IF b < 0 /\ a < MinI32 - b THEN (a + MaxI32 + 1) + (b + MaxI32 + 1)
    ELSE a + b

\* LLVMBuildSub on i32
sub(a, b) ==
    IF b = MinI32 THEN add(add(a, MaxI32), 1) ELSE add(a, -b)

\* v * 2^k mod 2^32 as an i32, for k in 1..24
shl(v, k) ==
    LET m == v % (2 ^ (32 - k))
    IN (IF m >= 2 ^ (31 - k) THEN m - 2 ^ (32 - k) ELSE m) * (2 ^ k)

\* a * byte mod 2^32 for byte in 0..255, from the two 16-bit halves of a
MulByte(a, byte) ==
    add((a % 65536) * byte, shl(((a \div 65536) % 65536) * byte, 16))

\* LLVMBuildMul on i32: a * b mod 2^32, from the four bytes of b
mul(a, b) ==
    add(add(MulByte(a, b % 256), shl(MulByte(a, (b \div 256) % 256), 8)),
        add(shl(MulByte(a, (b \div 65536) % 256), 16),
            shl(MulByte(a, (b \div 16777216) % 256), 24)))

\* sdiv is undefined behaviour for a zero divisor and for MinI32 / -1
sdiv_undefined(a, b) == b = 0 \/ (a = MinI32 /\ b = -1)

\* 2^31 \div b for b > 1
DivPow31(b) == (MaxI32 \div b) + (IF (MaxI32 % b) = b - 1 THEN 1 ELSE 0)

\* LLVMBuildSDiv on i32: the quotient rounded towards zero
sdiv(a, b) ==
    IF b = MinI32 THEN (IF a = MinI32 THEN 1 ELSE 0)
    ELSE IF a = MinI32 /\ b = 1 THEN MinI32
    ELSE IF a = MinI32 THEN (IF b > 0 THEN -DivPow31(b) ELSE DivPow31(-b))
    ELSE IF a >= 0 /\ b > 0 THEN a \div b
    ELSE IF a >= 0 THEN -(a \div (-b))
    ELSE IF b > 0 THEN -((-a) \div b)
    ELSE (-a) \div (-b)

\* a truncation that reads the i8 as signed
trunc_signed(v) == IF v % 256 >= 128 THEN (v % 256) - 256 ELSE v % 256

\* LLVMBuildTrunc i32 -> i8: the low eight bits, kept as the byte 0..255
trunc(v) == v % 256

\* an extension that reads the loaded byte as signed
sext(byte) == IF byte >= 128 THEN byte - 256 ELSE byte

\* LLVMBuildZExt i8 -> i32 of a loaded byte
zext(byte) == byte

\* `x as usize` of the u32 argument a trace callback receives
as_usize(v) == IF v >= 0 THEN v ELSE (v + MaxI32) + MaxI32 + 2

(***************************************************************************)
(* Images: GrayImage = ImageBuffer<u8>, row-major.                         *)
(***************************************************************************)
\* ImageBuffer::new
ImageBuffer_new(width, height) ==
    [width |-> width, height |-> height,
     buffer |-> [i \in 1..(width * height) |-> 0]]

\* ImageBuffer::from_raw
from_raw(width, height, buffer) ==
    [width |-> width, height |-> height, buffer |-> buffer]

\* Image::dimensions
dimensions(image) == <<image.width, image.height>>

\* Image::get
get(image, x, y) == image.buffer[y * image.width + x + 1]

(***************************************************************************)
(* The AST (syntax/ast.rs).                                                *)
(***************************************************************************)
X == [k |-> "Var", v |-> "X"]
Y == [k |-> "Var", v |-> "Y"]
VConst(c) == [k |-> "Const", c |-> c]
VAdd(l, r) == [k |-> "Add", l |-> l, r |-> r]
VSub(l, r) == [k |-> "Sub", l |-> l, r |-> r]
VMul(l, r) == [k |-> "Mul", l |-> l, r |-> r]

Access(source, x, y) == [k |-> "Access", source |-> source, x |-> x, y |-> y]
Const(c) == [k |-> "Const", c |-> c]
Param(p) == [k |-> "Param", p |-> p]
Cond(cmp, lhs, rhs, if_true, if_false) ==
    [k |-> "Cond", cmp |-> cmp, lhs |-> lhs, rhs |-> rhs,
     if_true |-> if_true, if_false |-> if_false]
Add(l, r) == [k |-> "Add", l |-> l, r |-> r]
Sub(l, r) == [k |-> "Sub", l |-> l, r |-> r]
Mul(l, r) == [k |-> "Mul", l |-> l, r |-> r]
Div(l, r) == [k |-> "Div", l |-> l, r |-> r]

Comparison == {"EQ", "GT", "GTE", "LT", "LTE"}

Func(name, definition) == [name |-> name, definition |-> definition]

\* FuncSchedule::by_row / by_column: the loop variables, outermost first
by_row == <<"Y", "X">>
by_column == <<"X", "Y">>

(***************************************************************************)
(* Names.  Rust compares Strings lexicographically; Names lists every name *)
(* the model uses in ascending lexicographic order.                        *)
(***************************************************************************)
Names == <<"a", "b", "c", "f", "g", "out", "p">>

\* index of an element in a sequence without duplicates (0 when absent)
IndexOf(seq, e) ==
    IF \E i \in 1..Len(seq) : seq[i] = e
    THEN CHOOSE i \in 1..Len(seq) : seq[i] = e
    ELSE 0

\* String's Ord
lt(n1, n2) == IndexOf(Names, n1) < IndexOf(Names, n2)

\* a sort that leaves the names in descending order
RECURSIVE sort_descending(_)
sort_descending(S) ==
    IF S = {} THEN <<>>
    ELSE LET m == CHOOSE n \in S : \A o \in S : o = n \/ IndexOf(Names, o) < IndexOf(Names, n)
         IN <<m>> \o sort_descending(S \ {m})

RECURSIVE sort(_)
\* Vec::sort of a set of distinct names collected into a Vec
sort(S) ==
    IF S = {} THEN <<>>
    ELSE LET m == CHOOSE n \in S : \A o \in S : o = n \/ lt(n, o)
         IN <<m>> \o sort(S \ {m})

Range(seq) == {seq[i] : i \in 1..Len(seq)}

(***************************************************************************)
(* Definition::sources, Definition::params, Graph::new (syntax/).          *)
(***************************************************************************)
RECURSIVE accesses(_)
\* the Access nodes of a Definition, in the order lower_definition lowers them
accesses(d) ==
    CASE d.k = "Access" -> <<d>>
      [] d.k \in {"Const", "Param"} -> <<>>
      [] d.k = "Cond" -> accesses(d.lhs) \o accesses(d.rhs)
                         \o accesses(d.if_true) \o accesses(d.if_false)
      [] OTHER -> accesses(d.l) \o accesses(d.r)

RECURSIVE sources(_)
sources(d) ==
    CASE d.k = "Access" -> <<d.source>>
      [] d.k = "Const" -> <<>>
      [] d.k = "Param" -> <<>>
      [] d.k = "Cond" ->
            sources(d.lhs) \o sources(d.rhs) \o sources(d.if_true) \o sources(d.if_false)
      [] OTHER -> sources(d.l) \o sources(d.r)

RECURSIVE params(_)
params(d) ==
    CASE d.k = "Access" -> <<>>
      [] d.k = "Const" -> <<>>
      [] d.k = "Param" -> <<d.p>>
      [] d.k = "Cond" ->
            params(d.lhs) \o params(d.rhs) \o params(d.if_true) \o params(d.if_false)
      [] OTHER -> params(d.l) \o params(d.r)

\* Graph::new: func_names.difference(&schedule_names)
funcs_without_schedules(func_names, schedule_names) == func_names \ schedule_names

\* a difference that finds every buffer scheduled
none_without_schedules(buffers, schedule_names) == {}

\* Graph::new: buffers.difference(&schedule_names)
buffers_without_schedules(buffers, schedule_names) == buffers \ schedule_names

\* Graph::new.  schedule is the Schedule's map from names to FuncSchedules.
\* The outcome is the Graph, or the panic with the names its message lists.
Graph_new(name, funcs, schedule) ==
    LET func_names == {funcs[i].name : i \in 1..Len(funcs)}
        reads == UNION {Range(sources(funcs[i].definition)) : i \in 1..Len(funcs)}
        inputs == sort(reads \ func_names)
        ps == UNION {Range(params(funcs[i].definition)) : i \in 1..Len(funcs)}
        schedule_names == DOMAIN schedule
        missing_funcs == funcs_without_schedules(func_names, schedule_names)
        missing_buffers == buffers_without_schedules(Range(inputs), schedule_names)
    IN IF missing_funcs /= {} \/ missing_buffers /= {}
       THEN [panic |-> TRUE,
             message |-> "Not all functions have schedules",
             schedule_names |-> schedule_names,
             missing_funcs |-> missing_funcs,
             missing_buffers |-> missing_buffers]
       ELSE [panic |-> FALSE,
             name |-> name,
             funcs |-> funcs,
             inputs |-> inputs,
             outputs |-> [i \in 1..Len(funcs) |-> funcs[i].name],
             params |-> sort(ps),
             schedule |-> schedule]

\* Graph::input_then_outputs
input_then_outputs(graph) == graph.inputs \o graph.outputs

(***************************************************************************)
(* Lowering (codegen/lower.rs).  The operators below compute what the      *)
(* emitted IR computes when it runs.  bufs is the sequence of buffers the   *)
(* generated function was handed, in argument order; the i-th one is the   *)
(* buffer of the i-th name of input_then_outputs (create_ir_module).       *)
(***************************************************************************)
\* symbols.get(name), symbols.get(name_width), symbols.get(name_height)
nth_buffer(graph, bufs, name) == bufs[IndexOf(input_then_outputs(graph), name)]

\* symbols.get(p): the nth_param load
nth_param(graph, ps, p) == ps[IndexOf(graph.params, p)]

RECURSIVE lower_var_expr(_, _, _)
lower_var_expr(expr, x, y) ==
    CASE expr.k = "Var" -> (IF expr.v = "X" THEN x ELSE y)
      [] expr.k = "Const" -> expr.c
      [] expr.k = "Add" -> add(lower_var_expr(expr.l, x, y), lower_var_expr(expr.r, x, y))
      [] expr.k = "Sub" -> sub(lower_var_expr(expr.l, x, y), lower_var_expr(expr.r, x, y))
      [] expr.k = "Mul" -> mul(lower_var_expr(expr.l, x, y), lower_var_expr(expr.r, x, y))

\* the bounds test of lower_access
access_in_bounds(x, y, width, height) ==
    /\ x >= 0
    /\ x < width
    /\ y >= 0
    /\ y < height

\* the value loaded and zero-extended on the then-branch of lower_access
access_load(image, offset) == zext(image.buffer[offset + 1])

\* lower_access: the value, and the read it logs (none when out of bounds).
\* buf and offset record the load itself.
lower_access(access, x0, y0, graph, bufs) ==
    LET image == nth_buffer(graph, bufs, access.source)
        x == lower_var_expr(access.x, x0, y0)
        y == lower_var_expr(access.y, x0, y0)
        offset == add(mul(y, image.width), x)
    IN IF access_in_bounds(x, y, image.width, image.height)
       THEN [val |-> access_load(image, offset),
             reads |-> <<[source |-> access.source, x |-> x, y |-> y,
                          buf |-> IndexOf(input_then_outputs(graph), access.source),
                          offset |-> offset]>>,
             ub |-> FALSE]
       ELSE [val |-> 0, reads |-> <<>>, ub |-> FALSE]

\* unsigned less-than on i32
ult(left, right) == IF (left < 0) = (right < 0) THEN left < right ELSE right < 0

\* the comparisons as unsigned predicates (icmp ugt, uge, ult, ule)
compare_unsigned(cmp, left, right) ==
    CASE cmp = "EQ" -> left = right
      [] cmp = "GT" -> ult(right, left)
      [] cmp = "GTE" -> ~ult(left, right)
      [] cmp = "LT" -> ult(left, right)
      [] cmp = "LTE" -> ~ult(right, left)

\* the icmp of a Cond
compare(cmp, left, right) ==
    CASE cmp = "EQ" -> left = right
      [] cmp = "GT" -> left > right
      [] cmp = "GTE" -> left >= right
      [] cmp = "LT" -> left < right
      [] cmp = "LTE" -> left <= right

\* the slot reloaded after the branch of a Cond
select(cond, if_true, if_false) == IF cond THEN if_true ELSE if_false

RECURSIVE lower_definition(_, _, _, _, _, _, _)
\* lower_definition: the i32 the Definition's IR computes at (x, y), the reads
\* it logs in execution order, and whether an sdiv with undefined behaviour
\* was executed (u is then the value that sdiv yields).  The operands of a
\* Cond are all lowered before the branch, so all four are executed.
lower_definition(d, x, y, graph, bufs, ps, u) ==
    CASE d.k = "Access" -> lower_access(d, x, y, graph, bufs)
      [] d.k = "Const" -> [val |-> d.c, reads |-> <<>>, ub |-> FALSE]
      [] d.k = "Param" -> [val |-> nth_param(graph, ps, d.p), reads |-> <<>>, ub |-> FALSE]
      [] d.k = "Cond" ->
            LET left == lower_definition(d.lhs, x, y, graph, bufs, ps, u)
                right == lower_definition(d.rhs, x, y, graph, bufs, ps, u)
                if_true == lower_definition(d.if_true, x, y, graph, bufs, ps, u)
                if_false == lower_definition(d.if_false, x, y, graph, bufs, ps, u)
            IN [reads |-> left.reads \o right.reads \o if_true.reads \o if_false.reads,
                ub |-> left.ub \/ right.ub \/ if_true.ub \/ if_false.ub,
                val |-> select(compare(d.cmp, left.val, right.val), if_true.val, if_false.val)]
      [] OTHER ->
            LET l == lower_definition(d.l, x, y, graph, bufs, ps, u)
                r == lower_definition(d.r, x, y, graph, bufs, ps, u)
            IN [reads |-> l.reads \o r.reads,
                ub |-> l.ub \/ r.ub \/ (d.k = "Div" /\ sdiv_undefined(l.val, r.val)),
                val |-> CASE d.k = "Add" -> add(l.val, r.val)
                          [] d.k = "Mul" -> mul(l.val, r.val)
                          [] d.k = "Sub" -> sub(l.val, r.val)
                          [] d.k = "Div" -> IF sdiv_undefined(l.val, r.val) THEN u
                                            ELSE sdiv(l.val, r.val)]

\* lower_func: the byte stored, and where
\* a store into the first input buffer
func_store_to_input(func, val, x, y, graph, bufs) ==
    [buf |-> 1, offset |-> add(mul(y, bufs[1].width), x), byte |-> trunc(val)]

func_store(func, val, x, y, graph, bufs) ==
    LET image == nth_buffer(graph, bufs, func.name)
    IN [buf |-> IndexOf(input_then_outputs(graph), func.name),
        offset |-> add(mul(y, image.width), x),
        byte |-> trunc(val)]

(***************************************************************************)
(* The loop nests (create_ir_module, generate_loop).  A position is the    *)
(* Func being computed and the values of its outer and inner loop          *)
(* variables at an execution of the innermost body; End is the ret.        *)
(***************************************************************************)
End == [fi |-> 0, o |-> 0, i |-> 0]

\* the Funcs lowered last to first
nth_func_reversed(graph, fi) == graph.funcs[Len(graph.funcs) + 1 - fi]

\* create_ir_module: `for func in graph.funcs.iter()`, the fi-th loop nest
nth_func(graph, fi) == graph.funcs[fi]

\* y_max / x_max: the extents of the final Func's buffer
y_max(graph, bufs) == nth_buffer(graph, bufs, graph.funcs[Len(graph.funcs)].name).height
x_max(graph, bufs) == nth_buffer(graph, bufs, graph.funcs[Len(graph.funcs)].name).width

\* a schedule test that takes every Func as by_row
always_y_outer(graph, fi) == TRUE

\* sched.variables[0] == Var::Y
y_outer(graph, fi) == graph.schedule[nth_func(graph, fi).name][1] = "Y"

outer_max(graph, bufs, fi) ==
    IF y_outer(graph, fi) THEN y_max(graph, bufs) ELSE x_max(graph, bufs)

inner_max(graph, bufs, fi) ==
    IF y_outer(graph, fi) THEN x_max(graph, bufs) ELSE y_max(graph, bufs)

\* generate_loop, header: the body is entered unless the bound is 0
loop_entered(bound) == bound /= 0

\* generate_loop, latch: cont = icmp_slt(next, bound)
loop_continues(next, bound) == next < bound

RECURSIVE outer_body(_, _, _, _)
RECURSIVE outer_latch(_, _, _, _)
RECURSIVE next_func(_, _, _)

\* the outer body with outer variable o: the inner loop's header
outer_body(graph, bufs, fi, o) ==
    IF loop_entered(inner_max(graph, bufs, fi))
    THEN [fi |-> fi, o |-> o, i |-> 0]
    ELSE outer_latch(graph, bufs, fi, o)

\* the end of the outer body
outer_latch(graph, bufs, fi, o) ==
    IF loop_continues(add(o, 1), outer_max(graph, bufs, fi))
    THEN outer_body(graph, bufs, fi, add(o, 1))
    ELSE next_func(graph, bufs, fi + 1)

\* the outer loop's header of the fi-th Func, or the ret
next_func(graph, bufs, fi) ==
    IF fi > Len(graph.funcs) THEN End
    ELSE IF loop_entered(outer_max(graph, bufs, fi)) THEN outer_body(graph, bufs, fi, 0)
    ELSE next_func(graph, bufs, fi + 1)

\* the end of the inner body at pos
inner_latch(graph, bufs, pos) ==
    IF loop_continues(add(pos.i, 1), inner_max(graph, bufs, pos.fi))
    THEN [pos EXCEPT !.i = add(pos.i, 1)]
    ELSE outer_latch(graph, bufs, pos.fi, pos.o)

\* an x that is always the inner loop variable
pos_x_inner(graph, pos) == pos.i

\* symbols.get("x"), symbols.get("y") at a position
pos_x(graph, pos) == IF y_outer(graph, pos.fi) THEN pos.i ELSE pos.o
pos_y(graph, pos) == IF y_outer(graph, pos.fi) THEN pos.o ELSE pos.i


(***************************************************************************)
(* Trace (tracing/trace.rs) and the process-wide sink                      *)
(* (tracing/global_trace.rs).                                              *)
(***************************************************************************)
Read(id, x, y) == [k |-> "Read", id |-> id, x |-> x, y |-> y]
Write(id, x, y, c) == [k |-> "Write", id |-> id, x |-> x, y |-> y, c |-> c]

\* Trace::new
Trace_new == [actions |-> <<>>, initial_images |-> <<>>]

\* a create_trace_id that numbers the ids from 1
create_trace_id_from_one(tr, initial_image) ==
    [id |-> Len(tr.initial_images) + 1,
     tr |-> [tr EXCEPT !.initial_images = Append(@, initial_image)]]

\* a trace_set that replaces the last Action
trace_set_in_place(tr, id, x, y, c) ==
    [tr EXCEPT !.actions =
        IF @ = <<>> THEN <<Write(id, x, y, c)>>
        ELSE [@ EXCEPT ![Len(@)] = Write(id, x, y, c)]]

\* Trace::create_trace_id: the id, and the trace afterwards
create_trace_id(tr, initial_image) ==
    [id |-> Len(tr.initial_images),
     tr |-> [tr EXCEPT !.initial_images = Append(@, initial_image)]]

\* Trace::trace_get
trace_get(tr, id, x, y) == [tr EXCEPT !.actions = Append(@, Read(id, x, y))]

\* Trace::trace_set
trace_set(tr, id, x, y, c) == [tr EXCEPT !.actions = Append(@, Write(id, x, y, c))]

ActiveRegion(x, y, width, height) == [x |-> x, y |-> y, width |-> width, height |-> height]
Clear(id) == [k |-> "Clear", id |-> id]
Active(id, region) == [k |-> "Active", id |-> id, region |-> region]

\* Trace::trace_clear
trace_clear(tr, id) == [tr EXCEPT !.actions = Append(@, Clear(id))]

\* Trace::trace_active
trace_active(tr, id, x, y, width, height) ==
    [tr EXCEPT !.actions = Append(@, Active(id, ActiveRegion(x, y, width, height)))]

\* TraceImage::from_image: the TraceImage, and the trace afterwards
TraceImage_from_image(tr, image) ==
    LET c == create_trace_id(tr, image)
    IN [timage |-> [image |-> image, trace_id |-> c.id], tr |-> c.tr]

\* TraceImage::new
TraceImage_new(tr, width, height) == TraceImage_from_image(tr, ImageBuffer_new(width, height))

\* set_global_trace: the new values of TRACE_IDS and TRACE
set_global_trace(ids, trace) == [TRACE_IDS |-> Some(ids), TRACE |-> Some(trace)]

\* get_global_trace: a clone of TRACE
get_global_trace(T) == IF T.some THEN Some(T.v) ELSE None

\* clear_global_trace
clear_global_trace == [TRACE_IDS |-> None, TRACE |-> None]

\* log_read: TRACE afterwards.  ids[&name] panics for a name the map lacks;
\* the panic leaves an extern "C" function called from generated code and
\* ends the process.
log_read(T, IDS, name, x, y) ==
    IF T.some /\ IDS.some
    THEN IF name \in DOMAIN IDS.v
         THEN [crash |-> FALSE,
               TRACE |-> Some(trace_get(T.v, IDS.v[name], as_usize(x), as_usize(y)))]
         ELSE [crash |-> TRUE, TRACE |-> T]
    ELSE [crash |-> FALSE, TRACE |-> T]

\* a log_write that records nothing
log_write_dropped(T, IDS, name, x, y, c) == [crash |-> FALSE, TRACE |-> T]

\* log_write
log_write(T, IDS, name, x, y, c) ==
    IF T.some /\ IDS.some
    THEN IF name \in DOMAIN IDS.v
         THEN [crash |-> FALSE,
               TRACE |-> Some(trace_set(T.v, IDS.v[name], as_usize(x), as_usize(y), c))]
         ELSE [crash |-> TRUE, TRACE |-> T]
    ELSE [crash |-> FALSE, TRACE |-> T]

RECURSIVE log_reads(_, _, _)
\* the log_read calls of one Definition, in execution order
log_reads(T, IDS, reads) ==
    IF reads = <<>> THEN [crash |-> FALSE, TRACE |-> T]
    ELSE LET r == log_read(T, IDS, Head(reads).source, Head(reads).x, Head(reads).y)
         IN IF r.crash THEN r ELSE log_reads(r.TRACE, IDS, Tail(reads))

(***************************************************************************)
(* Processor (codegen/processor.rs).                                       *)
(***************************************************************************)
\* Processor::new: the compiled graph and its cached input and output names
Processor_new(graph) ==
    [graph |-> graph, inputs |-> graph.inputs, outputs |-> graph.outputs]

Source(name, image) == [name |-> name, image |-> image]

\* HashMap::insert
insert(map, key, value) == (key :> value) @@ map

RECURSIVE create_trace_ids(_)
\* process_impl: ids.insert(name, tr.create_trace_id(image)) for each entry,
\* from an empty map and a new Trace
create_trace_ids(entries) ==
    IF entries = <<>> THEN [ids |-> <<>>, tr |-> Trace_new]
    ELSE LET n == Len(entries)
             before == create_trace_ids(SubSeq(entries, 1, n - 1))
             c == create_trace_id(before.tr, entries[n].image)
         IN [ids |-> insert(before.ids, entries[n].name, c.id), tr |-> c.tr]

\* process_impl: calculated_images
calculated_images(processor, w, h) ==
    [i \in 1..Len(processor.outputs) |-> Source(processor.outputs[i], ImageBuffer_new(w, h))]

\* process_impl: the trace and id map installed when tracing: the supplied
\* inputs are registered first, then the outputs
initial_trace(processor, inputs, w, h) ==
    create_trace_ids(inputs \o calculated_images(processor, w, h))

\* process_impl: the first declared input that is not supplied, if any
missing_source(processor, inputs) ==
    LET missing == {i \in 1..Len(processor.inputs) :
                       \A j \in 1..Len(inputs) : inputs[j].name /= processor.inputs[i]}
    IN IF missing = {} THEN None
       ELSE Some(processor.inputs[CHOOSE i \in missing : \A j \in missing : i <= j])

\* process_impl: the arms of `match (self.inputs.len(), self.outputs.len())`
supported_signature(processor) ==
    <<Len(processor.inputs), Len(processor.outputs)>> \in {<<1, 1>>, <<1, 2>>, <<2, 1>>, <<2, 2>>}

\* process_impl: the input buffers handed to the generated function
input_arguments(processor, inputs) ==
    LET i0 == inputs[1].image
        i1 == inputs[1].image
    IN IF Len(processor.inputs) = 1 THEN <<i0>> ELSE <<i0, i1>>

\* process_impl: calculated_images.into_iter().collect()
collect(names, images) ==
    [n \in Range(names) |->
        images[CHOOSE i \in 1..Len(names) :
                  names[i] = n /\ \A j \in 1..Len(names) : names[j] = n => j <= i]]


(***************************************************************************)
(* The pipelines and inputs the model runs.                                *)
(***************************************************************************)
in_a == Access("a", X, Y)

\* the arguments of one Graph::new
Pipeline(name, funcs, schedule) == [name |-> name, funcs |-> funcs, schedule |-> schedule]

\* out = a(x, y)
identity ==
    Pipeline("identity", <<Func("out", in_a)>>, ("a" :> by_row @@ "out" :> by_row))

\* out = a(x, y) + 3
add3 ==
    Pipeline("add3", <<Func("out", Add(in_a, Const(3)))>>,
              ("a" :> by_row @@ "out" :> by_column))

\* f = a(x, y) + 3; g = f(x, y) * 2
chain ==
    Pipeline("chain",
              <<Func("f", Add(in_a, Const(3))),
                Func("g", Mul(Access("f", X, Y), Const(2)))>>,
              ("a" :> by_row @@ "f" :> by_row @@ "g" :> by_column))

\* out = if a(x, y) > 100 then 250 else 0
thresh ==
    Pipeline("thresh",
              <<Func("out", Cond("GT", in_a, Const(100), Const(250), Const(0)))>>,
              ("a" :> by_row @@ "out" :> by_row))

\* out = (a(x - 1, y) + a(x, y) + a(x + 1, y)) / 3; g = (out(x, y - 1) + out(x, y + 1)) / 2
blur ==
    Pipeline("blur",
              <<Func("f", Div(Add(Add(Access("a", VSub(X, VConst(1)), Y), in_a),
                                  Access("a", VAdd(X, VConst(1)), Y)),
                              Const(3))),
                Func("g", Div(Add(Access("f", X, VSub(Y, VConst(1))),
                                  Access("f", X, VAdd(Y, VConst(1)))),
                              Const(2)))>>,
              ("a" :> by_row @@ "f" :> by_column @@ "g" :> by_row))

\* out = a(x, y) - b(x, y)
diff ==
    Pipeline("diff", <<Func("out", Sub(in_a, Access("b", X, Y)))>>,
              ("a" :> by_row @@ "b" :> by_row @@ "out" :> by_row))

\* out = if a(x, y) == 0 then 0 else 255 / a(x, y)
guarded ==
    Pipeline("guarded",
              <<Func("out", Cond("EQ", in_a, Const(0), Const(0), Div(Const(255), in_a)))>>,
              ("a" :> by_row @@ "out" :> by_row))

\* f = (a(x, y) * 2^24) / 2^25 - (a(x, y) + MaxI32) / 2^24; g = f(x, y) / 2
wrapping ==
    Pipeline("wrapping",
              <<Func("f", Sub(Div(Mul(in_a, Const(16777216)), Const(33554432)),
                              Div(Add(in_a, Const(MaxI32)), Const(16777216)))),
                Func("g", Div(Access("f", X, Y), Const(2)))>>,
              ("a" :> by_row @@ "f" :> by_column @@ "g" :> by_row))

\* a Func comparing a(x, y) - 100 with a(x + 1, y) - 100
compared(name, cmp) ==
    Func(name, Cond(cmp, Sub(in_a, Const(100)),
                    Sub(Access("a", VAdd(X, VConst(1)), Y), Const(100)),
                    Const(250), Const(7)))

compare1 ==
    Pipeline("compare1", <<compared("f", "EQ"), compared("g", "GT")>>,
              ("a" :> by_row @@ "f" :> by_row @@ "g" :> by_row))

compare2 ==
    Pipeline("compare2", <<compared("f", "GTE"), compared("g", "LT")>>,
              ("a" :> by_row @@ "f" :> by_row @@ "g" :> by_row))

compare3 ==
    Pipeline("compare3", <<compared("out", "LTE")>>,
              ("a" :> by_row @@ "out" :> by_column))

\* f = a(x, y) - b(x, y); g = f(x, y) + b(y, x)
mixed ==
    Pipeline("mixed",
              <<Func("f", Sub(in_a, Access("b", X, Y))),
                Func("g", Add(Access("f", X, Y), Access("b", Y, X)))>>,
              ("a" :> by_row @@ "b" :> by_row @@ "f" :> by_row @@ "g" :> by_column))

\* out = a(x, y) + b(x, y) + c(x, y)
sum3 ==
    Pipeline("sum3",
              <<Func("out", Add(Add(in_a, Access("b", X, Y)), Access("c", X, Y)))>>,
              ("a" :> by_row @@ "b" :> by_row @@ "c" :> by_row @@ "out" :> by_row))

\* out = a(x, y) + p
bright ==
    Pipeline("bright", <<Func("out", Add(in_a, Param("p")))>>,
              ("a" :> by_row @@ "out" :> by_row))

\* out = 300
fill == Pipeline("fill", <<Func("out", Const(300))>>, ("out" :> by_row))

\* out = c(x, y)
copy_c ==
    Pipeline("copy_c", <<Func("out", Access("c", X, Y))>>,
              ("c" :> by_row @@ "out" :> by_row))

Pipelines ==
    <<identity, add3, chain, thresh, blur, diff, guarded, wrapping,
      compare1, compare2, compare3, mixed, sum3, bright, fill, copy_c>>

\* the schedule assignments of a pipeline of at most two Funcs
ScheduleCodes == 0..3

\* the Graphs that Graph::new makes of the pipelines
PipelineGraphs ==
    [i \in 1..Len(Pipelines) |->
        Graph_new(Pipelines[i].name, Pipelines[i].funcs, Pipelines[i].schedule)]

\* the Graph that Graph::new makes of the Funcs of a graph and a Schedule that
\* gives its j-th Func by_column where bit j of code is set and by_row
\* elsewhere, and buffers that are not Funcs the FuncSchedule they had
Rescheduled(graph, code) ==
    IF graph.panic THEN graph
    ELSE [graph EXCEPT !.schedule =
            [n \in DOMAIN @ |->
                IF \E j \in 1..MaxFuncs : j <= Len(graph.outputs) /\ graph.outputs[j] = n
                THEN LET j == CHOOSE j \in 1..Len(graph.outputs) : graph.outputs[j] = n
                     IN IF (code \div (2 ^ (j - 1))) % 2 = 1 THEN by_column ELSE by_row
                ELSE @[n]]]

\* the Graphs of the pipelines, followed by the Graphs of every pipeline under
\* every schedule assignment
Graphs ==
    PipelineGraphs
        \o [i \in 1..(Len(Pipelines) * Cardinality(ScheduleCodes)) |->
               Rescheduled(PipelineGraphs[((i - 1) % Len(Pipelines)) + 1],
                           (i - 1) \div Len(Pipelines))]

GraphIds == 1..Len(Pipelines)

\* the Graph of pipeline gi under a schedule assignment, and back
rescheduled(gi, code) == (Len(Pipelines) * (code + 1)) + gi
pipeline_of(p) == ((p - 1) % Len(Pipelines)) + 1

\* the pixel values images are drawn from
Pixels == {0, 200}

\* the values an sdiv with undefined behaviour may leave in its register
UndefinedValues == {0, -1}

\* every image of at most maxw by maxh pixels
Images(maxw, maxh) ==
    UNION {{from_raw(w, h, b) : b \in [1..(w * h) -> Pixels]} :
              w \in 0..maxw, h \in 0..maxh}

\* an image of the same size with every pixel changed
Complement(image) ==
    from_raw(image.width, image.height,
             [i \in 1..Len(image.buffer) |-> 200 - image.buffer[i]])

\* the declared inputs of a graph, in order: image for the first, its
\* complement for the others
DeclaredInputs(gi, image) ==
    [i \in 1..Len(Graphs[gi].inputs) |->
        Source(Graphs[gi].inputs[i], IF i = 1 THEN image ELSE Complement(image))]

\* the caller's images in the runs with several calls
PoolImage ==
    ("a" :> from_raw(2, 1, <<200, 0>>)
     @@ "b" :> from_raw(2, 1, <<0, 200>>)
     @@ "c" :> from_raw(1, 1, <<200>>))

\* every list of at most two distinct pool images, and the three in one order
PoolInputs ==
    LET N == DOMAIN PoolImage
    IN {<<>>}
       \cup {<<Source(n, PoolImage[n])>> : n \in N}
       \cup {<<Source(nm[1], PoolImage[nm[1]]), Source(nm[2], PoolImage[nm[2]])>> :
                nm \in {nm \in N \X N : nm[1] /= nm[2]}}
       \cup {[i \in 1..3 |-> Source(<<"c", "a", "b">>[i], PoolImage[<<"c", "a", "b">>[i]])]}

(***************************************************************************)
(* Calls and results.                                                       *)
(***************************************************************************)
NoCall ==
    [p |-> 0, api |-> "none", inputs |-> <<>>, bufs |-> <<>>, params |-> None, ps |-> <<>>,
     pos |-> End, ops |-> <<>>]

NoResult ==
    [status |-> "none", api |-> "none", p |-> 0, inputs |-> <<>>,
     images |-> <<>>, trace |-> None, message |-> "", source |-> "", ops |-> <<>>]

Panicked(api, gi, inputs, message, source) ==
    [status |-> "panic", api |-> api, p |-> gi, inputs |-> inputs,
     images |-> <<>>, trace |-> None, message |-> message, source |-> source,
     ops |-> <<>>]

Returned(api, gi, inputs, images, trace, ops) ==
    [status |-> "ok", api |-> api, p |-> gi, inputs |-> inputs,
     images |-> images, trace |-> trace, message |-> "", source |-> "", ops |-> ops]

\* no Graph::new has been called
NotBuilt == [called |-> FALSE]

\* a new Trace, nothing created from it or logged to it
NoTracer == [trace |-> Trace_new, given |-> <<>>, ids |-> <<>>, last |-> [op |-> "new"]]

\* no pretty_print has been called
NotPrinted == [called |-> FALSE]

\* no blur has been run
NotBlurred == [called |-> FALSE]

Init ==
    /\ TRACE = None
    /\ TRACE_IDS = None
    /\ threads = [th \in Threads |-> [pc |-> "idle", cur |-> NoCall, result |-> NoResult]]
    /\ kept = NoResult
    /\ ncalls = 0
    /\ built = NotBuilt
    /\ tracer = NoTracer
    /\ printed = NotPrinted
    /\ blurred = NotBlurred

\* no thread has ended the process
alive == \A th \in Threads : threads[th].pc /= "crashed"

\* whether another thread is inside a generated function, whose log_read and
\* log_write use TRACE and TRACE_IDS
in_flight(th) == \E o \in Threads \ {th} : threads[o].pc = "running"

\* TRACE and TRACE_IDS are static mut: an access that races with the
\* accesses of a thread in flight is a data race, which goes through or
\* ends the process
Torn(racing) == IF racing THEN BOOLEAN ELSE {FALSE}

\* the entry block of the generated function, before the loops of the
\* first Func
Entry == [i |-> 0, o |-> 0, fi |-> 1]

\* process_impl: the params array handed to the generated function.  process
\* and process_with_tracing take no parameter values and every arm of the
\* match passes buffers and sizes only
params_argument == None

\* the entry block of the generated function loads every param of the graph
\* through its params pointer, which process_impl never passed: each load
\* leaves any of the UndefinedValues, or traps
param_loads(graph) ==
    IF graph.params = <<>> THEN {[trap |-> FALSE, ps |-> <<>>]}
    ELSE [trap : BOOLEAN, ps : [1..Len(graph.params) -> UndefinedValues]]

(***************************************************************************)
(* Processor::process_impl up to the call of the generated function.       *)
(***************************************************************************)
process_impl(th, gi, inputs, trace) ==
    LET processor == Processor_new(Graphs[gi])
        api == IF trace THEN "process_with_tracing" ELSE "process"
    IN
    /\ alive
    /\ threads[th].pc = "idle"
    /\ ncalls < MaxCalls
    /\ ncalls' = ncalls + 1
    /\ UNCHANGED <<kept, built, tracer, printed, blurred>>
    /\ IF Len(inputs) = 0
       THEN \* inputs[0] is out of bounds
            /\ threads' = [threads EXCEPT ![th].result =
                               Panicked(api, gi, inputs, "index out of bounds", "")]
            /\ UNCHANGED <<TRACE, TRACE_IDS>>
       ELSE LET w == dimensions(inputs[1].image)[1]
                h == dimensions(inputs[1].image)[2]
                init == initial_trace(processor, inputs, w, h)
                installed == IF trace THEN set_global_trace(init.ids, init.tr)
                             ELSE [TRACE_IDS |-> TRACE_IDS, TRACE |-> TRACE]
                missing == missing_source(processor, inputs)
                outs == calculated_images(processor, w, h)
                bufs == input_arguments(processor, inputs)
                        \o [i \in 1..Len(outs) |-> outs[i].image]
            IN \E torn \in Torn(trace /\ in_flight(th)) :
               IF torn
               THEN /\ threads' = [threads EXCEPT ![th].pc = "crashed"]
                    /\ UNCHANGED <<TRACE, TRACE_IDS>>
               ELSE
               /\ TRACE' = installed.TRACE
               /\ TRACE_IDS' = installed.TRACE_IDS
               /\ IF missing.some
                  THEN threads' = [threads EXCEPT ![th].result =
                           Panicked(api, gi, inputs, "Required source", missing.v)]
                  ELSE IF ~supported_signature(processor)
                  THEN threads' = [threads EXCEPT ![th].result =
                           Panicked(api, gi, inputs, "Unsupported signature", "")]
                  ELSE \E loaded \in param_loads(Graphs[gi]) :
                       threads' = [threads EXCEPT ![th] =
                           [pc |-> IF loaded.trap THEN "crashed" ELSE "running",
                            cur |-> [p |-> gi, api |-> api, inputs |-> inputs, bufs |-> bufs,
                                     params |-> params_argument, ps |-> loaded.ps,
                                     pos |-> IF loaded.trap THEN Entry
                                             ELSE next_func(Graphs[gi], bufs, 1),
                                     ops |-> <<>>],
                            result |-> NoResult]]

\* Processor::process
process(th, gi, inputs) == process_impl(th, gi, inputs, FALSE)

\* Processor::process_with_tracing
process_with_tracing(th, gi, inputs) == process_impl(th, gi, inputs, TRUE)

(***************************************************************************)
(* The generated function: one execution of the innermost loop body        *)
(* (lower_func), and its ret.                                              *)
(***************************************************************************)
\* the loads and the store of one pixel, as the memory sees them
Loads(reads) ==
    [i \in 1..Len(reads) |->
        [k |-> "load", name |-> reads[i].source, x |-> reads[i].x, y |-> reads[i].y,
         buf |-> reads[i].buf, offset |-> reads[i].offset]]

Store(name, x, y, st) ==
    [k |-> "store", name |-> name, x |-> x, y |-> y,
     buf |-> st.buf, offset |-> st.offset, byte |-> st.byte]

\* whether the body about to run executes an sdiv with undefined behaviour
\* (the first such sdiv has operands that no earlier outcome can influence)
executes_undefined(call) ==
    LET graph == Graphs[call.p]
    IN lower_definition(nth_func(graph, call.pos.fi).definition,
                        pos_x(graph, call.pos), pos_y(graph, call.pos),
                        graph, call.bufs, call.ps, 0).ub

\* what a body can do: with undefined behaviour the sdiv leaves any of the
\* UndefinedValues or traps, and a torn access to the trace ends the process
\* too; without either, there is one outcome
Outcomes(undefined, racing) ==
    [u : IF undefined THEN UndefinedValues ELSE {0},
     trap : Torn(undefined \/ racing)]

\* a store that happens only while no trace is installed
stored_when_untraced(bufs, st) ==
    IF TRACE.some THEN bufs ELSE [bufs EXCEPT ![st.buf].buffer[st.offset + 1] = st.byte]

\* the buffers after the store of lower_func
stored(bufs, st) == [bufs EXCEPT ![st.buf].buffer[st.offset + 1] = st.byte]

lower_func(th) ==
    /\ alive
    /\ threads[th].pc = "running"
    /\ threads[th].cur.pos /= End
    /\ \E out \in Outcomes(executes_undefined(threads[th].cur), TRACE.some /\ in_flight(th)) :
          LET call == threads[th].cur
              graph == Graphs[call.p]
              func == nth_func(graph, call.pos.fi)
              x == pos_x(graph, call.pos)
              y == pos_y(graph, call.pos)
              d == lower_definition(func.definition, x, y, graph, call.bufs, call.ps, out.u)
              st == func_store(func, d.val, x, y, graph, call.bufs)
              rd == log_reads(TRACE, TRACE_IDS, d.reads)
              wr == log_write(rd.TRACE, TRACE_IDS, func.name, x, y, st.byte)
          IN IF out.trap \/ rd.crash \/ wr.crash
             THEN /\ threads' = [threads EXCEPT ![th].pc = "crashed"]
                  /\ UNCHANGED <<TRACE, TRACE_IDS, kept, ncalls, built, tracer, printed, blurred>>
             ELSE /\ TRACE' = wr.TRACE
                  /\ threads' = [threads EXCEPT ![th].cur =
                         [call EXCEPT !.bufs = stored(call.bufs, st),
                                      !.pos = inner_latch(graph, call.bufs, call.pos),
                                      !.ops = @ \o Loads(d.reads)
                                                \o <<Store(func.name, x, y, st)>>]]
                  /\ UNCHANGED <<TRACE_IDS, kept, ncalls, built, tracer, printed, blurred>>

\* the generated function returns; process_impl harvests the trace and
\* collects the images
ret_void(th) ==
    /\ alive
    /\ threads[th].pc = "running"
    /\ threads[th].cur.pos = End
    /\ LET call == threads[th].cur
           processor == Processor_new(Graphs[call.p])
           trace == call.api = "process_with_tracing"
           tr == get_global_trace(TRACE)
           cleared == IF trace THEN clear_global_trace
                      ELSE [TRACE_IDS |-> TRACE_IDS, TRACE |-> TRACE]
           n == Len(processor.inputs)
           images == collect(processor.outputs,
                             [i \in 1..Len(processor.outputs) |-> call.bufs[n + i]])
       IN \E torn \in Torn((trace \/ TRACE.some) /\ in_flight(th)) :
          IF torn
          THEN /\ threads' = [threads EXCEPT ![th].pc = "crashed"]
               /\ UNCHANGED <<TRACE, TRACE_IDS>>
          ELSE /\ TRACE' = cleared.TRACE
               /\ TRACE_IDS' = cleared.TRACE_IDS
               /\ threads' = [threads EXCEPT ![th] =
                      [pc |-> "idle", cur |-> NoCall,
                       result |-> Returned(call.api, call.p, call.inputs, images,
                                           IF trace THEN tr ELSE None, call.ops)]]
    /\ UNCHANGED <<kept, ncalls, built, tracer, printed, blurred>>

\* the caller keeps the result of the call that just returned
keep ==
    /\ pc = "idle"
    /\ result.status = "ok"
    /\ kept /= result
    /\ kept' = result
    /\ UNCHANGED <<TRACE, TRACE_IDS, threads, ncalls, built, tracer, printed, blurred>>

(***************************************************************************)
(* Specifications.                                                         *)
(***************************************************************************)
\* any sequence of calls on any of the Processors, with the pool images
Next ==
    \/ /\ pc = "idle"
       /\ \E gi \in GraphIds, inputs \in PoolInputs : process("main", gi, inputs)
    \/ /\ pc = "idle"
       /\ \E gi \in GraphIds, inputs \in PoolInputs :
             process_with_tracing("main", gi, inputs)
    \/ lower_func("main")
    \/ ret_void("main")

Spec == Init /\ [][Next]_vars

\* the images of the runs with one call
PixelImages == Images(MaxW, MaxH)

\* the graphs without a Param, whose value no caller can supply
\* (params_argument)
PixelGraphIds == {gi \in GraphIds : Graphs[gi].params = <<>>}

\* one call with the declared inputs, over every image within the bounds
NextPixels ==
    \/ /\ pc = "idle" /\ ncalls = 0
       /\ \E gi \in PixelGraphIds, image \in PixelImages :
             process("main", gi, DeclaredInputs(gi, image))
    \/ /\ pc = "idle" /\ ncalls = 0
       /\ \E gi \in PixelGraphIds, image \in PixelImages :
             process_with_tracing("main", gi, DeclaredInputs(gi, image))
    \/ lower_func("main")
    \/ ret_void("main")

SpecPixels == Init /\ [][NextPixels]_vars

\* the thread that entered the generated function keeps executing it: weak
\* fairness of its steps, which are enabled exactly while pc = "running"
SpecPixelsFair ==
    SpecPixels
        /\ ([]<>(pc /= "running") \/ []<><<lower_func("main") \/ ret_void("main")>>_vars)

\* whether every Func reads only inputs and Funcs listed before it
ordered(graph) ==
    \A i \in 1..Len(graph.funcs) :
        Range(sources(graph.funcs[i].definition))
            \subseteq Range(graph.inputs) \cup {graph.funcs[j].name : j \in 1..(i - 1)}

\* the param-free graphs in dependency order
ScheduleGraphIds == {gi \in PixelGraphIds : ordered(Graphs[gi])}

\* a traced call of a pipeline under one schedule assignment, kept, then a
\* traced call of the same pipeline with the same inputs under any other
NextSchedules ==
    \/ /\ pc = "idle" /\ ncalls = 0
       /\ \E gi \in ScheduleGraphIds, code \in ScheduleCodes, image \in PixelImages :
             process_with_tracing("main", rescheduled(gi, code), DeclaredInputs(gi, image))
    \/ /\ pc = "idle" /\ ncalls = 1 /\ kept = result
       /\ \E code \in ScheduleCodes :
             process_with_tracing("main", rescheduled(pipeline_of(kept.p), code), kept.inputs)
    \/ lower_func("main")
    \/ ret_void("main")
    \/ (ncalls = 1 /\ keep)

SpecSchedules == Init /\ [][NextSchedules]_vars

\* whether no Access of the graph can leave the bounds of its source
in_bounds_graph(graph) ==
    \A i \in 1..Len(graph.funcs) :
        \A acc \in Range(accesses(graph.funcs[i].definition)) : acc.x = X /\ acc.y = Y

InBoundsGraphIds == {gi \in GraphIds : in_bounds_graph(Graphs[gi])}

\* of these, the graphs without a Param
PairGraphIds == InBoundsGraphIds \cap PixelGraphIds

\* process, then process_with_tracing with the same Processor and inputs,
\* for the graphs whose accesses stay in bounds
NextPair ==
    \/ /\ pc = "idle" /\ ncalls = 0
       /\ \E gi \in PairGraphIds, image \in PixelImages :
             process("main", gi, DeclaredInputs(gi, image))
    \/ keep
    \/ /\ pc = "idle" /\ ncalls = 1 /\ kept = result /\ result.status = "ok"
       /\ process_with_tracing("main", kept.p, kept.inputs)
    \/ lower_func("main")
    \/ ret_void("main")

SpecPair == Init /\ [][NextPair]_vars

\* the Definitions, Funcs and Schedules Graph::new is called with
BuildDefinitions ==
    {in_a, Access("f", X, Y), Access("g", X, Y),
     Add(Access("b", X, Y), in_a),
     Add(Add(Param("p"), Param("c")), Param("p"))}

BuildFuncs == {Func(n, d) : n \in {"f", "g"}, d \in BuildDefinitions}

BuildFuncLists == UNION {[1..n -> BuildFuncs] : n \in 0..MaxFuncs}

BuildSchedules == {[n \in S |-> by_row] : S \in SUBSET {"a", "b", "f", "g", "out"}}

\* a caller constructs a Graph
new_graph ==
    /\ built = NotBuilt
    /\ \E funcs \in BuildFuncLists, schedule \in BuildSchedules :
          built' = [called |-> TRUE, funcs |-> funcs, schedule |-> schedule,
                    graph |-> Graph_new("graph", funcs, schedule)]
    /\ UNCHANGED <<TRACE, TRACE_IDS, threads, kept, ncalls, tracer, printed, blurred>>

NextGraph == new_graph

SpecGraph == Init /\ [][NextGraph]_vars

\* the images, ids, coordinates and values the calls on a Trace are given
TracerImages == {from_raw(1, 1, <<200>>), from_raw(2, 1, <<200, 0>>)}
TracerIds == {0, 1}
TracerXs == {0, 1}

\* one more call on the Trace has been made
traced(tr, last) ==
    tracer' = [tracer EXCEPT !.trace = tr, !.last = last @@ [n |-> Len(tracer.given) + Len(tracer.trace.actions) + 1]]

\* one more create_trace_id has been made, by the op last.op
created(c, image, last) ==
    tracer' = [trace |-> c.tr, given |-> Append(tracer.given, image),
               ids |-> Append(tracer.ids, c.id),
               last |-> last @@ [n |-> Len(tracer.given) + Len(tracer.trace.actions) + 1]]

\* a caller of Trace::create_trace_id, of TraceImageFactory::create_from_image
\* or of TraceImageFactory::create_image
create_id ==
    /\ Len(tracer.given) < MaxIds
    /\ \/ \E image \in TracerImages :
             LET c == create_trace_id(tracer.trace, image)
             IN created(c, image, [op |-> "create_trace_id", id |-> c.id, image |-> image])
       \/ \E image \in TracerImages :
             LET t == TraceImage_from_image(tracer.trace, image)
             IN created([id |-> t.timage.trace_id, tr |-> t.tr], image,
                        [op |-> "create_from_image", id |-> t.timage.trace_id,
                         image |-> t.timage.image])
       \/ LET t == TraceImage_new(tracer.trace, 1, 1)
          IN created([id |-> t.timage.trace_id, tr |-> t.tr], ImageBuffer_new(1, 1),
                     [op |-> "create_image", id |-> t.timage.trace_id,
                      image |-> t.timage.image])
    /\ UNCHANGED <<TRACE, TRACE_IDS, threads, kept, ncalls, built, printed, blurred>>

\* a caller of trace_get, trace_set, trace_clear or trace_active, with any id
log_action ==
    /\ Len(tracer.trace.actions) < MaxActions
    /\ \E id \in TracerIds, x \in TracerXs :
          \/ traced(trace_get(tracer.trace, id, x, 0),
                    [op |-> "trace_get", action |-> Read(id, x, 0)])
          \/ \E c \in Pixels :
                traced(trace_set(tracer.trace, id, x, 0, c),
                       [op |-> "trace_set", action |-> Write(id, x, 0, c)])
          \/ traced(trace_clear(tracer.trace, id),
                    [op |-> "trace_clear", action |-> Clear(id)])
          \/ traced(trace_active(tracer.trace, id, x, 0, 1, 1),
                    [op |-> "trace_active", action |-> Active(id, ActiveRegion(x, 0, 1, 1))])
    /\ UNCHANGED <<TRACE, TRACE_IDS, threads, kept, ncalls, built, printed, blurred>>

NextTrace == create_id \/ log_action

SpecTrace == Init /\ [][NextTrace]_vars

\* i32::to_string: the decimal digits, after a minus sign below zero
Digits == <<"0", "1", "2", "3", "4", "5", "6", "7", "8", "9">>

RECURSIVE digits(_)
digits(n) ==
    IF n < 10 THEN Digits[n + 1] ELSE digits(n \div 10) \o Digits[(n % 10) + 1]

to_string(c) == IF c < 0 THEN "-" \o digits(0 - c) ELSE digits(c)

\* Display for Var
Var_to_string(v) == IF v = "X" THEN "x" ELSE "y"

\* PrettyPrint for Comparison
Comparison_pretty_print(cmp) ==
    CASE cmp = "EQ" -> "=="
      [] cmp = "GT" -> ">"
      [] cmp = "GTE" -> ">="
      [] cmp = "LT" -> "<"
      [] cmp = "LTE" -> "<="

\* PrettyPrint::is_leaf of the implementation P
is_leaf(P, p) ==
    CASE P = "VarExpr" -> p.k \in {"Var", "Const"}
      [] P = "Access" -> TRUE
      [] P = "Comparison" -> TRUE
      [] P = "Definition" -> p.k \in {"Access", "Const"}
      [] P = "Func" -> TRUE

RECURSIVE pretty_print(_, _)

\* a pretty_print_with_parens that wraps every child
always_with_parens(P, p) == "(" \o pretty_print(P, p) \o ")"

pretty_print_with_parens(P, p) ==
    LET pp == pretty_print(P, p)
    IN IF is_leaf(P, p) THEN pp ELSE "(" \o pp \o ")"

combine_with_op(P, op, left, right) ==
    pretty_print_with_parens(P, left) \o " " \o op \o " " \o pretty_print_with_parens(P, right)

\* PrettyPrint::pretty_print of the implementation P
pretty_print(P, p) ==
    CASE P = "VarExpr" ->
            (CASE p.k = "Var" -> Var_to_string(p.v)
               [] p.k = "Const" -> to_string(p.c)
               [] p.k = "Add" -> combine_with_op(P, "+", p.l, p.r)
               [] p.k = "Sub" -> combine_with_op(P, "-", p.l, p.r)
               [] p.k = "Mul" -> combine_with_op(P, "*", p.l, p.r))
      [] P = "Access" ->
            p.source \o "(" \o pretty_print("VarExpr", p.x) \o ", "
                \o pretty_print("VarExpr", p.y) \o ")"
      [] P = "Comparison" -> Comparison_pretty_print(p)
      [] P = "Definition" ->
            (CASE p.k = "Access" -> pretty_print("Access", p)
               [] p.k = "Const" -> to_string(p.c)
               [] p.k = "Param" -> p.p
               [] p.k = "Cond" ->
                     "if " \o pretty_print_with_parens(P, p.lhs)
                         \o " " \o pretty_print_with_parens("Comparison", p.cmp)
                         \o " " \o pretty_print_with_parens(P, p.rhs)
                         \o " {" \o pretty_print_with_parens(P, p.if_true)
                         \o "} else {" \o pretty_print_with_parens(P, p.if_false) \o "}"
               [] p.k = "Add" -> combine_with_op(P, "+", p.l, p.r)
               [] p.k = "Sub" -> combine_with_op(P, "-", p.l, p.r)
               [] p.k = "Mul" -> combine_with_op(P, "*", p.l, p.r)
               [] p.k = "Div" -> combine_with_op(P, "/", p.l, p.r))
      [] P = "Func" -> p.name \o "(x, y) = " \o pretty_print("Definition", p.definition)

\* the i32 constants of the printed expressions
PrintConsts == (0 - MaxConst)..MaxConst \cup {3}

\* the VarExprs printed: the leaves, every binary node of two leaves, and
\* the binary nodes with a child that is itself a binary node
PrintVarLeaves == {X, Y} \cup {VConst(c) : c \in PrintConsts}
PrintVarNested == {VSub(X, VConst(1)), VAdd(X, Y)}
PrintVarChildren ==
    (PrintVarLeaves \X PrintVarLeaves)
        \cup (PrintVarNested \X (PrintVarNested \cup {X, VConst(3)}))
        \cup ({X, VConst(3)} \X PrintVarNested)
PrintVarExprs ==
    PrintVarLeaves
        \cup {VAdd(c[1], c[2]) : c \in PrintVarChildren}
        \cup {VSub(c[1], c[2]) : c \in PrintVarChildren}
        \cup {VMul(c[1], c[2]) : c \in PrintVarChildren}

\* the Definitions printed: accesses, constants and Params (one named like a
\* constant, one like an access), every binary node of two of these, Conds
\* and binary nodes with binary nodes and Conds as children
PrintAtoms ==
    {Access("g", X, Y), Param("p"), Param("3"), Param("g(x, y)")}
        \cup {Const(c) : c \in PrintConsts}
PrintNested ==
    {Add(Access("g", VAdd(X, VConst(1)), VSub(Y, VConst(1))), Access("g", VSub(X, VConst(1)), Y)),
     Add(Access("g", VSub(X, VConst(1)), Y), Const(2)),
     Cond("GT", Param("p"), Const(0), Const(1), Param("p"))}
PrintChildren ==
    (PrintAtoms \X PrintAtoms)
        \cup (PrintNested \X {Const(2), Param("p")})
        \cup ({Access("g", VAdd(X, VConst(1)), VSub(Y, VConst(1))), Param("p")} \X PrintNested)
PrintConds ==
    {Cond(cmp, c[1], c[2], c[3], c[4]) :
        cmp \in Comparison,
        c \in {Const(0), Param("p")} \X {Const(0), Param("p")}
                \X {Const(1), Add(Const(0), Const(1))} \X {Const(0), Param("p")}}
PrintDefinitions ==
    PrintAtoms \cup PrintNested \cup PrintConds
        \cup {Add(c[1], c[2]) : c \in PrintChildren}
        \cup {Sub(c[1], c[2]) : c \in PrintChildren}
        \cup {Mul(c[1], c[2]) : c \in PrintChildren}
        \cup {Div(c[1], c[2]) : c \in PrintChildren}

\* a caller of pretty_print on two VarExprs
print_var_exprs ==
    /\ printed = NotPrinted
    /\ \E a \in PrintVarExprs, b \in PrintVarExprs :
          printed' = [called |-> TRUE, of |-> "VarExpr", asts |-> <<a, b>>,
                      strings |-> <<pretty_print("VarExpr", a), pretty_print("VarExpr", b)>>]
    /\ UNCHANGED <<TRACE, TRACE_IDS, threads, kept, ncalls, built, tracer, blurred>>

\* a caller of pretty_print on two Definitions
print_definitions ==
    /\ printed = NotPrinted
    /\ \E a \in PrintDefinitions, b \in PrintDefinitions :
          printed' = [called |-> TRUE, of |-> "Definition", asts |-> <<a, b>>,
                      strings |-> <<pretty_print("Definition", a), pretty_print("Definition", b)>>]
    /\ UNCHANGED <<TRACE, TRACE_IDS, threads, kept, ncalls, built, tracer, blurred>>

\* a caller of pretty_print on two Funcs
print_funcs ==
    /\ printed = NotPrinted
    /\ \E m \in {"f", "out"}, n \in {"f", "out"}, a \in PrintNested \cup PrintAtoms, b \in PrintNested :
          printed' = [called |-> TRUE, of |-> "Func", asts |-> <<Func(m, a), Func(n, b)>>,
                      strings |-> <<pretty_print("Func", Func(m, a)), pretty_print("Func", Func(n, b))>>]
    /\ UNCHANGED <<TRACE, TRACE_IDS, threads, kept, ncalls, built, tracer, blurred>>

NextPrint == print_var_exprs \/ print_definitions \/ print_funcs

SpecPrint == Init /\ [][NextPrint]_vars

(***************************************************************************)
(* The handwritten 3x3 blurs (lib.rs, blur3.rs).                           *)
(***************************************************************************)
\* the builds: overflow checks on (debug) or off (release)
Builds == {"debug", "release"}

\* usize::MAX, as far as the 32-bit integers of the model hold it; it is
\* only compared with coordinates
UsizeMax == MaxI32

\* a - b on usize without overflow checks
usize_wrapping_sub(a, b) == IF a >= b THEN a - b ELSE (UsizeMax + (a - b)) + 1

\* a mean that rounds up
mean_rounded_up(a, b, c) == ((a + b + c + 2) \div 3) % 256

\* mean, and the u16 sums of lib.rs: ((a as u16 + b as u16 + c as u16) / 3) as u8
mean(a, b, c) == ((a + b + c) \div 3) % 256

\* a + b + c on u8 without overflow checks, and whether it overflows
u8_wrapping_sum(a, b, c) == (a + b + c) % 256
u8_overflows(a, b, c) == a + b + c > 255

\* a result of a blur function: a panic, or the image returned
BlurPanicked == [panic |-> TRUE]
BlurReturned(image) == [panic |-> FALSE, image |-> image]

\* the image of width by height whose pixel (x, y) is p[x, y]
image_from(width, height, p) ==
    from_raw(width, height,
             [i \in 1..(width * height) |-> p[(i - 1) % width, (i - 1) \div width]])

\* tests::blur3_reference
blur3_reference(build, image) ==
    LET w == image.width
        h == image.height
        row(x, y) == u8_wrapping_sum(get(image, x - 1, y), get(image, x, y), get(image, x + 1, y)) \div 3
        overflows ==
            \E x \in 1..(w - 2), y \in 0..(h - 1) :
                u8_overflows(get(image, x - 1, y), get(image, x, y), get(image, x + 1, y))
        blurred_image ==
            [x \in 0..(w - 1), y \in 0..(h - 1) |->
                IF x \in 1..(w - 2) /\ y \in 1..(h - 2)
                THEN u8_wrapping_sum(row(x, y - 1), row(x, y), row(x, y + 1)) \div 3
                ELSE 0]
    IN IF build = "debug" /\ h >= 3 /\ overflows THEN BlurPanicked
       ELSE BlurReturned(image_from(w, h, blurred_image))

\* lib.rs blur3_inline and blur3_inline_impl
blur3_inline(image) ==
    LET w == image.width
        h == image.height
        blurred_image ==
            [x \in 0..(w - 1), y \in 0..(h - 1) |->
                IF x \in 1..(w - 2) /\ y \in 1..(h - 2)
                THEN LET t == mean(get(image, x - 1, y - 1), get(image, x, y - 1), get(image, x + 1, y - 1))
                         m == mean(get(image, x - 1, y), get(image, x, y), get(image, x + 1, y))
                         b == mean(get(image, x - 1, y + 1), get(image, x, y + 1), get(image, x + 1, y + 1))
                     IN mean(t, m, b)
                ELSE 0]
    IN BlurReturned(image_from(w, h, blurred_image))

\* lib.rs blur3_intermediate and blur3_full_intermediate_impl
blur3_intermediate(image) ==
    LET w == image.width
        h == image.height
        hb == [x \in 0..(w - 1), y \in 0..(h - 1) |->
                IF x \in 1..(w - 2)
                THEN mean(get(image, x - 1, y), get(image, x, y), get(image, x + 1, y))
                ELSE 0]
        v == [x \in 0..(w - 1), y \in 0..(h - 1) |->
                IF y \in 1..(h - 2) THEN mean(hb[x, y - 1], hb[x, y], hb[x, y + 1]) ELSE 0]
    IN BlurReturned(image_from(w, h, v))

\* lib.rs blur3_split_y and blur3_split_y_impl: the strip of each y_outer,
\* cleared and filled, then the rows of v it gives
blur3_split_y(image, strip_height) ==
    LET w == image.width
        h == image.height
        strips ==
            [y_out \in 0..((h \div strip_height) - 1) |->
                [x \in 0..(w - 1), y_buffer \in 0..(strip_height + 1) |->
                    LET y_offset == y_out * strip_height
                    IN IF y_buffer + y_offset = 0 \/ y_buffer + y_offset > h THEN 0
                       ELSE IF x \in 1..(w - 2)
                            THEN LET y_image == y_buffer + y_offset - 1
                                 IN mean(get(image, x - 1, y_image), get(image, x, y_image),
                                         get(image, x + 1, y_image))
                            ELSE 0]]
        v == [x \in 0..(w - 1), y \in 0..(h - 1) |->
                LET strip == strips[y \div strip_height]
                    y_inner == y % strip_height
                    y_buffer == y_inner + 1
                IN IF y = 0 \/ y = h - 1 THEN 0
                   ELSE mean(strip[x, y_buffer - 1], strip[x, y_buffer], strip[x, y_buffer + 1])]
    IN IF h % strip_height /= 0 THEN BlurPanicked
       ELSE BlurReturned(image_from(w, h, v))

\* blur3.rs continue_if_outside_range!: (x, l, u) = ($x, $upper, $lower)
continue_if_outside_range(x, lower, upper) ==
    LET l == upper
        u == lower
    IN x < l \/ x > u

\* blur3.rs blur3_split_y and blur3_split_y_impl
blur3_blur3_split_y(build, image, strip_height) ==
    LET w == image.width
        h == image.height
        strips ==
            [y_out \in 0..((h \div strip_height) - 1) |->
                [x \in 0..(w - 1), y_buffer \in 0..(strip_height + 1) |->
                    LET y_offset == y_out * strip_height
                    IN IF continue_if_outside_range(y_buffer + y_offset, 1, h) THEN 0
                       ELSE IF x \in 1..(w - 2)
                            THEN LET y_image == y_buffer + y_offset - 1
                                 IN mean(get(image, x - 1, y_image), get(image, x, y_image),
                                         get(image, x + 1, y_image))
                            ELSE 0]]
        v == [x \in 0..(w - 1), y \in 0..(h - 1) |->
                LET strip == strips[y \div strip_height]
                    y_inner == y % strip_height
                    y_buffer == y_inner + 1
                IN IF continue_if_outside_range(y, 1, usize_wrapping_sub(h, 2)) THEN 0
                   ELSE mean(strip[x, y_buffer - 1], strip[x, y_buffer], strip[x, y_buffer + 1])]
    IN IF h % strip_height /= 0 THEN BlurPanicked
       ELSE IF build = "debug" /\ h < 2 THEN BlurPanicked
       ELSE BlurReturned(image_from(w, h, v))

\* blur3.rs blur3_tiled and blur3_tiled_impl; only the tiles of whole
\* multiples of the tile size are visited
blur3_tiled(build, image, tile_width, tile_height) ==
    LET w == image.width
        h == image.height
        tiles ==
            [y_out \in 0..((h \div tile_height) - 1), x_out \in 0..((w \div tile_width) - 1) |->
                [x_buffer \in 0..(tile_width - 1), y_buffer \in 0..(tile_height + 1) |->
                    LET y_offset == y_out * tile_height
                        x_offset == x_out * tile_width
                    IN IF continue_if_outside_range(y_buffer + y_offset, 1, h) THEN 0
                       ELSE IF continue_if_outside_range(x_buffer + x_offset, 1, w) THEN 0
                       ELSE LET y_image == y_buffer + y_offset - 1
                                x_image == x_buffer + x_offset
                            IN mean(get(image, x_image - 1, y_image), get(image, x_image, y_image),
                                    get(image, x_image + 1, y_image))]]
        row_passes(y) == ~continue_if_outside_range(y, 1, usize_wrapping_sub(h, 2))
        blurred_image ==
            [x \in 0..(w - 1), y \in 0..(h - 1) |->
                IF y \div tile_height > (h \div tile_height) - 1
                      \/ x \div tile_width > (w \div tile_width) - 1 THEN 0
                ELSE LET tile == tiles[y \div tile_height, x \div tile_width]
                         y_buffer == (y % tile_height) + 1
                         x_buffer == x % tile_width
                     IN IF ~row_passes(y) THEN 0
                        ELSE IF continue_if_outside_range(x, 1, usize_wrapping_sub(w, 2)) THEN 0
                        ELSE mean(tile[x_buffer, y_buffer - 1], tile[x_buffer, y_buffer],
                                  tile[x_buffer, y_buffer + 1])]
        visited == h \div tile_height >= 1 /\ w \div tile_width >= 1
        underflows ==
            visited /\ (h < 2 \/ (w < 2 /\ \E y \in 0..(((h \div tile_height) * tile_height) - 1) : row_passes(y)))
    IN IF h % tile_width /= 0 \/ h % tile_height /= 0 THEN BlurPanicked
       ELSE IF build = "debug" /\ underflows THEN BlurPanicked
       ELSE BlurReturned(image_from(w, h, blurred_image))

\* the pixels of the blurred images: dark, or bright enough for three in a
\* row to overflow a u8 sum
DarkPixel == 1
BrightPixel == 86

\* the images of w by h pixels with at most MaxBright bright pixels
BlurImages(w, h) ==
    {from_raw(w, h, [i \in 1..(w * h) |-> IF i \in lit THEN BrightPixel ELSE DarkPixel]) :
        lit \in {b \in SUBSET (1..(w * h)) : Cardinality(b) <= MaxBright}}

\* the sizes that divide n
Divisors(n) == {d \in 1..n : n % d = 0}

\* tests::image: the image of the tests
tests_image(width, height) ==
    from_raw(width, height,
             [i \in 1..(width * height) |-> (((i - 1) % width) + ((i - 1) \div width)) % 17])

\* the run of a test: its result and the result of blur3_reference
test_blur3(module, blur_function, args, build, image, actual) ==
    blurred' = [called |-> TRUE, module |-> module, blur_function |-> blur_function,
                args |-> args, build |-> build, image |-> image, actual |-> actual,
                expected |-> blur3_reference(build, image)]

\* lib.rs tests::test_blur3 of each blur function, on any image
test_lib ==
    /\ blurred = NotBlurred
    /\ \E build \in Builds :
         \E image \in {tests_image(5, 10)}
                        \cup UNION {BlurImages(w, h) : w \in 1..MaxBlurW, h \in 1..MaxBlurH} :
            \/ test_blur3("lib", "blur3_inline", <<>>, build, image, blur3_inline(image))
            \/ test_blur3("lib", "blur3_intermediate", <<>>, build, image, blur3_intermediate(image))
            \/ \E strip_height \in IF image = tests_image(5, 10) THEN {5, 2} ELSE Divisors(image.height) :
                  test_blur3("lib", "blur3_split_y", <<strip_height>>, build, image,
                             blur3_split_y(image, strip_height))
    /\ UNCHANGED <<TRACE, TRACE_IDS, threads, kept, ncalls, built, tracer, printed>>

\* blur3.rs tests::test_blur3 of split_y and tiled, on any image
test_blur3_module ==
    /\ blurred = NotBlurred
    /\ \E build \in Builds :
         \E image \in {tests_image(10, 10)}
                        \cup UNION {BlurImages(w, h) : w \in 1..MaxBlurW, h \in 1..MaxBlurH} :
            \/ \E strip_height \in IF image = tests_image(10, 10) THEN {5, 2} ELSE Divisors(image.height) :
                  test_blur3("blur3", "blur3_split_y", <<strip_height>>, build, image,
                             blur3_blur3_split_y(build, image, strip_height))
            \/ \E tile_width \in IF image = tests_image(10, 10) THEN {5} ELSE Divisors(image.width),
                  tile_height \in IF image = tests_image(10, 10) THEN {5} ELSE Divisors(image.height) :
                  test_blur3("blur3", "blur3_tiled", <<tile_width, tile_height>>, build, image,
                             blur3_tiled(build, image, tile_width, tile_height))
    /\ UNCHANGED <<TRACE, TRACE_IDS, threads, kept, ncalls, built, tracer, printed>>

NextBlur == test_lib \/ test_blur3_module

SpecBlur == Init /\ [][NextBlur]_vars

\* the pipelines of the runs with two threads
ThreadGraphIds == {gi \in GraphIds : Graphs[gi].name \in {"identity", "chain"}}

\* the inputs of these runs: one image, under either of two names
ThreadInputs == {<<Source(n, PoolImage["a"])>> : n \in {"a", "b"}}

\* calls from two threads of one process, in any interleaving
NextThreads ==
    \/ \E th \in Threads, gi \in ThreadGraphIds, inputs \in ThreadInputs :
          process(th, gi, inputs)
    \/ \E th \in Threads, gi \in ThreadGraphIds, inputs \in ThreadInputs :
          process_with_tracing(th, gi, inputs)
    \/ \E th \in Threads : lower_func(th)
    \/ \E th \in Threads : ret_void(th)

SpecThreads == Init /\ [][NextThreads]_vars

(***************************************************************************)
(* What a pipeline computes, stated without the lowering: the value of a   *)
(* Definition at a coordinate over given buffers.  Every operand is        *)
(* evaluated; the value is defined when no division evaluated has a zero   *)
(* divisor or overflows.                                                   *)
(***************************************************************************)
RECURSIVE coordinate(_, _, _)
coordinate(e, x, y) ==
    CASE e.k = "Var" -> (IF e.v = "X" THEN x ELSE y)
      [] e.k = "Const" -> e.c
      [] e.k = "Add" -> add(coordinate(e.l, x, y), coordinate(e.r, x, y))
      [] e.k = "Sub" -> sub(coordinate(e.l, x, y), coordinate(e.r, x, y))
      [] e.k = "Mul" -> mul(coordinate(e.l, x, y), coordinate(e.r, x, y))

\* the pixel of an image at a coordinate, 0 outside the image
pixel_at(image, x, y) ==
    IF 0 <= x /\ x < image.width /\ 0 <= y /\ y < image.height
    THEN image.buffer[y * image.width + x + 1]
    ELSE 0

\* the buffer bound to a name
buffer_of(graph, bufs, name) == bufs[IndexOf(graph.inputs \o graph.outputs, name)]

holds(cmp, l, r) ==
    CASE cmp = "EQ" -> l = r
      [] cmp = "GT" -> l > r
      [] cmp = "GTE" -> l >= r
      [] cmp = "LT" -> l < r
      [] cmp = "LTE" -> l <= r

RECURSIVE value_of(_, _, _, _, _)
value_of(d, x, y, graph, bufs) ==
    CASE d.k = "Access" ->
            [defined |-> TRUE,
             val |-> pixel_at(buffer_of(graph, bufs, d.source),
                              coordinate(d.x, x, y), coordinate(d.y, x, y))]
      [] d.k = "Const" -> [defined |-> TRUE, val |-> d.c]
      [] d.k = "Param" -> [defined |-> FALSE, val |-> 0]
      [] d.k = "Cond" ->
            LET l == value_of(d.lhs, x, y, graph, bufs)
                r == value_of(d.rhs, x, y, graph, bufs)
                t == value_of(d.if_true, x, y, graph, bufs)
                f == value_of(d.if_false, x, y, graph, bufs)
            IN [defined |-> l.defined /\ r.defined /\ t.defined /\ f.defined,
                val |-> IF holds(d.cmp, l.val, r.val) THEN t.val ELSE f.val]
      [] OTHER ->
            LET l == value_of(d.l, x, y, graph, bufs)
                r == value_of(d.r, x, y, graph, bufs)
                divides == d.k /= "Div" \/ ~(r.val = 0 \/ (l.val = MinI32 /\ r.val = -1))
            IN [defined |-> l.defined /\ r.defined /\ divides,
                val |-> CASE d.k = "Add" -> add(l.val, r.val)
                          [] d.k = "Sub" -> sub(l.val, r.val)
                          [] d.k = "Mul" -> mul(l.val, r.val)
                          [] d.k = "Div" -> IF divides THEN sdiv(l.val, r.val) ELSE 0]

\* the call in progress has run every loop and is at the ret
AtRet == pc = "running" /\ cur.pos = End

\* the Func whose body is about to run, or was running at a crash
CurFunc == Graphs[cur.p].funcs[cur.pos.fi]
CurX == pos_x(Graphs[cur.p], cur.pos)
CurY == pos_y(Graphs[cur.p], cur.pos)
InBody == pc \in {"running", "crashed"} /\ cur.pos /= End

(***************************************************************************)
(* C1: after one invocation of the generated function on a W x H pipeline  *)
(* whose Funcs read only inputs and earlier Funcs, every pixel (x, y) of   *)
(* every Func F holds the low 8 bits of the value of F's Definition at     *)
(* (x, y) in wrapping signed 32-bit arithmetic, wherever that value is     *)
(* defined; and the invocation stops early only in a body whose value is   *)
(* not defined.                                                            *)
(***************************************************************************)
C1_StoredPixels ==
    /\ (AtRet /\ ordered(Graphs[cur.p])) =>
          LET graph == Graphs[cur.p]
              W == x_max(graph, cur.bufs)
              H == y_max(graph, cur.bufs)
          IN \A fi \in 1..Len(graph.funcs), x \in 0..(W - 1), y \in 0..(H - 1) :
                LET v == value_of(graph.funcs[fi].definition, x, y, graph, cur.bufs)
                    F == buffer_of(graph, cur.bufs, graph.funcs[fi].name)
                IN v.defined => F.buffer[y * W + x + 1] = v.val % 256
    /\ (pc = "crashed" /\ ~TRACE.some) =>
          ~value_of(CurFunc.definition, CurX, CurY, Graphs[cur.p], cur.bufs).defined

\* an invocation of the wrapping pipeline has stored 129 (-127) and 99
C1_Witness ==
    /\ AtRet
    /\ Graphs[cur.p].name = "wrapping"
    /\ {129, 99} \subseteq Range(cur.bufs[2].buffer)

C3_Chain ==
    /\ pc = "running" =>
          LET graph == Graphs[cur.p]
              ops == cur.ops
          IN \A fi \in 1..Len(graph.funcs), gi \in 1..Len(graph.funcs) :
                LET f == graph.funcs[fi].name
                    g == graph.funcs[gi].name
                IN (fi < gi /\ f \in Range(sources(graph.funcs[gi].definition))) =>
                      /\ \A i \in 1..Len(ops), j \in 1..Len(ops) :
                            (/\ ops[i].k = "store" /\ ops[i].name = f
                             /\ \/ ops[j].k = "load" /\ ops[j].name = f
                                \/ ops[j].k = "store" /\ ops[j].name = g)
                            => i < j
                      /\ (cur.api = "process_with_tracing" /\ TRACE.some /\ TRACE_IDS.some) =>
                            LET actions == TRACE.v.actions
                                id == TRACE_IDS.v[f]
                            IN \A i \in 1..Len(actions), j \in 1..Len(actions) :
                                  (/\ actions[i].k = "Write" /\ actions[i].id = id
                                   /\ actions[j].k = "Read" /\ actions[j].id = id)
                                  => i < j
    /\ (AtRet /\ Graphs[cur.p].name = "chain") =>
          \A i \in 1..Len(cur.bufs[1].buffer) :
             /\ cur.bufs[2].buffer[i] = (cur.bufs[1].buffer[i] + 3) % 256
             /\ cur.bufs[3].buffer[i] = (cur.bufs[2].buffer[i] * 2) % 256
    /\ (AtRet /\ Graphs[cur.p].name = "wrapping") =>
          \A i \in 1..Len(cur.bufs[1].buffer) :
             cur.bufs[3].buffer[i] = cur.bufs[2].buffer[i] \div 2

\* a traced run of the chain on the pixels 200, 0 is at its ret with
\* f = 203, 3 and g = 150, 6 and the eight actions in the trace
C3_Witness ==
    /\ AtRet
    /\ Graphs[cur.p].name = "chain"
    /\ cur.api = "process_with_tracing"
    /\ cur.bufs[1].buffer = <<200, 0>>
    /\ cur.bufs[2].buffer = <<203, 3>>
    /\ cur.bufs[3].buffer = <<150, 6>>
    /\ TRACE.some
    /\ Len(TRACE.v.actions) = 8

C5_CanonicalBinding ==
    pc = "running" =>
       LET graph == Graphs[cur.p]
           n == Len(graph.inputs)
       IN /\ \A i \in 1..n :
                \E j \in 1..Len(cur.inputs) :
                   /\ cur.inputs[j].name = graph.inputs[i]
                   /\ cur.bufs[i] = cur.inputs[j].image
          /\ cur.ops = <<>> =>
                \A i \in 1..Len(graph.outputs) :
                   \A k \in 1..Len(cur.bufs[n + i].buffer) : cur.bufs[n + i].buffer[k] = 0

(***************************************************************************)
(* C6: whenever a call of process_with_tracing has finished, by returning  *)
(* or by failing, TRACE and TRACE_IDS are both None, after any sequence of *)
(* calls.                                                                  *)
(***************************************************************************)
C6_ClearedAfterTracing ==
    (pc = "idle" /\ result.api = "process_with_tracing") =>
       (TRACE = None /\ TRACE_IDS = None)

\* the TraceId process_impl gives a name: the supplied inputs are numbered
\* from 0 in the caller's order, then the outputs in graph order
trace_id_of(inputs, graph, name) ==
    LET names == [i \in 1..Len(inputs) |-> inputs[i].name] \o graph.outputs
    IN (CHOOSE i \in 1..Len(names) :
           names[i] = name /\ \A j \in 1..Len(names) : names[j] = name => j <= i) - 1

\* the Actions that record the loads and stores of an invocation
actions_of(ops, inputs, graph) ==
    [i \in 1..Len(ops) |->
        IF ops[i].k = "load"
        THEN Read(trace_id_of(inputs, graph, ops[i].name), ops[i].x, ops[i].y)
        ELSE Write(trace_id_of(inputs, graph, ops[i].name), ops[i].x, ops[i].y, ops[i].byte)]

(***************************************************************************)
(* C7: during a process_with_tracing invocation the installed trace holds, *)
(* in execution order, one Read(id(source), x', y') per pixel load and one *)
(* Write(id(F), x, y, v) per pixel store the generated function has        *)
(* performed in this invocation, and nothing else; the trace returned is   *)
(* that sequence for the whole invocation.                                 *)
(***************************************************************************)
C7_TraceIsLog ==
    /\ (pc = "running" /\ cur.api = "process_with_tracing") =>
          /\ TRACE.some
          /\ TRACE.v.actions = actions_of(cur.ops, cur.inputs, Graphs[cur.p])
    /\ (result.status = "ok" /\ result.api = "process_with_tracing") =>
          /\ result.trace.some
          /\ result.trace.v.actions = actions_of(result.ops, result.inputs, Graphs[result.p])

\* a second tracing call has returned a trace with Reads and Writes
C7_Witness ==
    /\ ncalls = 2
    /\ result.status = "ok"
    /\ result.api = "process_with_tracing"
    /\ \E i, j \in 1..Len(result.trace.v.actions) :
          /\ i < j
          /\ result.trace.v.actions[i].k = "Read"
          /\ result.trace.v.actions[j].k = "Write"
          /\ result.trace.v.actions[j].c = 203

(***************************************************************************)
(* C8: for a pipeline whose Accesses cannot leave the bounds of their      *)
(* sources, process and process_with_tracing called with the same inputs   *)
(* return the same output images: the same names with the same pixels.     *)
(***************************************************************************)
C8_SameOutputs ==
    (/\ kept.status = "ok" /\ kept.api = "process"
     /\ result.status = "ok" /\ result.api = "process_with_tracing"
     /\ result.p = kept.p /\ result.inputs = kept.inputs) =>
       /\ DOMAIN result.images = Range(Graphs[kept.p].outputs)
       /\ result.images = kept.images

\* both calls of the chain have returned, with pixels 203 and 150 in them
C8_Witness ==
    /\ kept.status = "ok" /\ kept.api = "process"
    /\ result.status = "ok" /\ result.api = "process_with_tracing"
    /\ result.p = kept.p /\ result.inputs = kept.inputs
    /\ Graphs[kept.p].name = "chain"
    /\ 203 \in Range(kept.images["f"].buffer)
    /\ 150 \in Range(result.images["g"].buffer)

\* a step of a call of process: its entry, or a step while it runs
process_step ==
    \/ pc = "running" /\ cur.api = "process"
    \/ /\ pc = "idle" /\ ncalls' /= ncalls
       /\ (cur'.api = "process" \/ (pc' = "idle" /\ result'.api = "process"))

(***************************************************************************)
(* C9: a call of process leaves TRACE and TRACE_IDS as they were before    *)
(* the call, appends no Action to any Trace, and no log_read or log_write  *)
(* of it fails, after any sequence of earlier calls.                       *)
(***************************************************************************)
C9_ProcessLeavesTrace ==
    [][process_step =>
          /\ TRACE' = TRACE
          /\ TRACE_IDS' = TRACE_IDS
          /\ (pc = "running" /\ pc' = "crashed") => executes_undefined(cur)]_vars

\* thread th enters process_with_tracing
enters_tracing(th) ==
    /\ threads[th].pc = "idle"
    /\ ncalls' /= ncalls
    /\ threads'[th] /= threads[th]
    /\ \/ threads'[th].cur.api = "process_with_tracing"
       \/ threads'[th].pc = "idle" /\ threads'[th].result.api = "process_with_tracing"
       \/ threads'[th].pc = "crashed"

(***************************************************************************)
(* C10: a process_with_tracing entered while another tracing invocation is *)
(* in flight fails at once, before any generated code runs, and leaves the *)
(* installed TRACE and TRACE_IDS as they are.                              *)
(***************************************************************************)
C10_ReentryFailsFast ==
    [][\A th \in Threads :
          (/\ enters_tracing(th)
           /\ \E o \in Threads \ {th} :
                 /\ threads[o].pc = "running"
                 /\ threads[o].cur.api = "process_with_tracing") =>
             /\ threads'[th].pc = "idle"
             /\ threads'[th].result.status = "panic"
             /\ TRACE' = TRACE
             /\ TRACE_IDS' = TRACE_IDS]_vars

\* the names the Funcs of the last Graph::new read, and their own names
built_reads == UNION {Range(sources(built.funcs[i].definition)) : i \in 1..Len(built.funcs)}
built_names == {built.funcs[i].name : i \in 1..Len(built.funcs)}
built_params == UNION {Range(params(built.funcs[i].definition)) : i \in 1..Len(built.funcs)}

\* whether a sequence of names is in ascending lexicographic order, which
\* leaves no duplicates
ascending(names) ==
    \A i, j \in 1..Len(names) : i < j => IndexOf(Names, names[i]) < IndexOf(Names, names[j])

(***************************************************************************)
(* C12: Graph::new succeeds only if every Access of every Func names an    *)
(* input or a Func listed earlier, so that outputs of a constructed Graph  *)
(* is a valid dependency order.                                            *)
(***************************************************************************)
C12_DependencyOrder ==
    (built.called /\ ~built.graph.panic) =>
       \A i \in 1..Len(built.funcs) :
          \A s \in Range(sources(built.funcs[i].definition)) :
             \/ s \in Range(built.graph.inputs)
             \/ \E j \in 1..(i - 1) : built.graph.outputs[j] = s

(***************************************************************************)
(* C13: in a constructed Graph inputs is the set of names accessed minus   *)
(* the Func names, params the set of Param names referenced, both in       *)
(* ascending lexicographic order without duplicates, outputs the Func      *)
(* names in the supplied order, and every name accessed is in inputs or in *)
(* outputs.                                                                *)
(***************************************************************************)
C13_GraphLists ==
    (built.called /\ ~built.graph.panic) =>
       LET graph == built.graph
       IN /\ Range(graph.inputs) = built_reads \ built_names
          /\ Range(graph.params) = built_params
          /\ ascending(graph.inputs)
          /\ ascending(graph.params)
          /\ Len(graph.outputs) = Len(built.funcs)
          /\ \A i \in 1..Len(built.funcs) : graph.outputs[i] = built.funcs[i].name
          /\ built_reads \subseteq Range(graph.inputs) \cup Range(graph.outputs)

\* a Graph with two inputs and two params, read and referenced in
\* descending order
C13_Witness ==
    /\ built.called
    /\ ~built.graph.panic
    /\ built.graph.inputs = <<"a", "b">>
    /\ built.graph.params = <<"c", "p">>
    /\ built.graph.outputs = <<"g", "f">>

(***************************************************************************)
(* C14: Graph::new fails with the missing-schedule panic, whose message    *)
(* lists the absent names, exactly when some Func name or input name has   *)
(* no entry in the Schedule; otherwise it succeeds, whatever other entries *)
(* the Schedule has.                                                       *)
(***************************************************************************)
C14_MissingSchedule ==
    built.called =>
       LET absent == (built_names \cup (built_reads \ built_names)) \ DOMAIN built.schedule
       IN /\ built.graph.panic <=> absent /= {}
          /\ built.graph.panic =>
                /\ built.graph.message = "Not all functions have schedules"
                /\ built.graph.missing_funcs \cup built.graph.missing_buffers = absent
                /\ built.graph.missing_funcs = built_names \ DOMAIN built.schedule
          /\ ~built.graph.panic => built.graph.schedule = built.schedule

\* a Func and an input lack a schedule while an unused name has one
C14_Witness ==
    /\ built.called
    /\ built.graph.panic
    /\ built.graph.missing_funcs = {"g"}
    /\ built.graph.missing_buffers = {"b"}
    /\ "out" \in DOMAIN built.schedule

\* the declared input names of a call's graph that the caller did not supply
absent_inputs(call) ==
    Range(Graphs[call.p].inputs) \ {call.inputs[j].name : j \in 1..Len(call.inputs)}

(***************************************************************************)
(* C11: a call of process or process_with_tracing that lacks a declared    *)
(* input of the graph, the call without any input included, fails with the *)
(* missing-input error naming an absent input, and the generated function  *)
(* is not entered.                                                         *)
(***************************************************************************)
C11_MissingInput ==
    /\ (pc = "idle" /\ result.status /= "none" /\ absent_inputs(result) /= {}) =>
          /\ result.status = "panic"
          /\ result.message = "Required source"
          /\ result.source \in absent_inputs(result)
    /\ pc = "running" => absent_inputs(cur) = {}

(***************************************************************************)
(* C15: an invocation of bright, out = a(x, y) + p, runs with the value k  *)
(* the caller supplied for p, the Param evaluates to the supplied value at *)
(* its index in the sorted params of the graph, and the output equals that *)
(* of out = a(x, y) + k.                                                   *)
(***************************************************************************)
C15_ParamIsSuppliedValue ==
    (pc \in {"running", "crashed"} /\ Graphs[cur.p].name = "bright") =>
       LET graph == Graphs[cur.p]
       IN /\ cur.params.some
          /\ Len(cur.params.v) = Len(graph.params)
          /\ \A i \in 1..Len(graph.params) :
                nth_param(graph, cur.ps, graph.params[i]) = cur.params.v[i]
          /\ pc = "running"
          /\ cur.pos = End =>
                \A x \in 0..(x_max(graph, cur.bufs) - 1), y \in 0..(y_max(graph, cur.bufs) - 1) :
                   pixel_at(buffer_of(graph, cur.bufs, "out"), x, y)
                      = value_of(Add(in_a, Const(cur.params.v[1])), x, y, graph, cur.bufs).val % 256

(***************************************************************************)
(* C16: a call that processes fill, whose only Func is out = 300 and which *)
(* declares no input, returns an image out whose every pixel is 300 mod    *)
(* 256 = 44.                                                               *)
(***************************************************************************)
C16_ConstantGraph ==
    (pc = "idle" /\ result.status /= "none" /\ Graphs[result.p].name = "fill") =>
       /\ result.status = "ok"
       /\ DOMAIN result.images = {"out"}
       /\ \A i \in 1..Len(result.images["out"].buffer) : result.images["out"].buffer[i] = 44

(***************************************************************************)
(* C17: process_impl rejects no graph for its number of inputs and         *)
(* outputs: a call that supplies every declared input does not fail with   *)
(* the unsupported-signature panic, and the generated function is entered  *)
(* with one buffer per input and output.                                   *)
(***************************************************************************)
C17_AnyCount ==
    /\ (pc = "idle" /\ result.status = "panic" /\ absent_inputs(result) = {}) =>
          result.message /= "Unsupported signature"
    /\ pc = "running" =>
          Len(cur.bufs) = Len(Graphs[cur.p].inputs) + Len(Graphs[cur.p].outputs)

\* whether the images of an input list all have the same width and height
same_shape(inputs) ==
    \A i, j \in 1..Len(inputs) : dimensions(inputs[i].image) = dimensions(inputs[j].image)

(***************************************************************************)
(* C18: the generated function is entered only with input images of one    *)
(* width and height, a call with images of different shapes fails, and     *)
(* every output buffer has the width and height of the first input.        *)
(***************************************************************************)
C18_ShapeMismatch ==
    /\ pc = "running" =>
          /\ same_shape(cur.inputs)
          /\ \A i \in 1..Len(cur.bufs) :
                i > Len(Graphs[cur.p].inputs) =>
                   dimensions(cur.bufs[i]) = dimensions(cur.inputs[1].image)
    /\ (pc = "idle" /\ result.status /= "none" /\ ~same_shape(result.inputs)) =>
          result.status = "panic"

\* the buffers of a returned call: the input arguments, then the returned
\* images in graph order
returned_bufs(res) ==
    LET graph == Graphs[res.p]
    IN input_arguments(Processor_new(graph), res.inputs)
       \o [i \in 1..Len(graph.outputs) |-> res.images[graph.outputs[i]]]

(***************************************************************************)
(* C19: the outcome of a call depends on its graph and inputs only: after  *)
(* any earlier calls of process and process_with_tracing, a call that      *)
(* returns gives the images its Definitions determine from its inputs, and *)
(* a call ends the process only where the value of its Definition is       *)
(* undefined, so that repeating a call repeats its output.                 *)
(***************************************************************************)
C19_Repeatable ==
    /\ (pc = "idle" /\ result.status = "ok" /\ ordered(Graphs[result.p])) =>
          LET graph == Graphs[result.p]
              bufs == returned_bufs(result)
              W == x_max(graph, bufs)
              H == y_max(graph, bufs)
          IN \A fi \in 1..Len(graph.funcs), x \in 0..(W - 1), y \in 0..(H - 1) :
                LET v == value_of(graph.funcs[fi].definition, x, y, graph, bufs)
                IN v.defined =>
                      pixel_at(bufs[Len(graph.inputs) + fi], x, y) = v.val % 256
    /\ pc = "crashed" =>
          ~value_of(CurFunc.definition, CurX, CurY, Graphs[cur.p], cur.bufs).defined

\* whether every Action of a Trace names a registered id and a coordinate
\* inside the initial image of that id
actions_in_images(tr) ==
    \A i \in 1..Len(tr.actions) :
        LET a == tr.actions[i]
        IN /\ a.id \in 0..(Len(tr.initial_images) - 1)
           /\ a.x < tr.initial_images[a.id + 1].width
           /\ a.y < tr.initial_images[a.id + 1].height

(***************************************************************************)
(* C20: every Read and Write of a trace, installed or returned, carries an *)
(* id that create_trace_id registered and a coordinate with x < width and  *)
(* y < height of initial_images[id]; a tracing invocation registers each   *)
(* supplied input with its image and each output with the zero image of    *)
(* the dimensions of the pipeline.                                         *)
(***************************************************************************)
C20_ActionsInImages ==
    /\ TRACE.some => actions_in_images(TRACE.v)
    /\ (result.status = "ok" /\ result.trace.some) => actions_in_images(result.trace.v)
    /\ (pc = "running" /\ cur.api = "process_with_tracing") =>
          /\ TRACE.some /\ TRACE_IDS.some
          /\ \A j \in 1..Len(cur.inputs) :
                /\ cur.inputs[j].name \in DOMAIN TRACE_IDS.v
                /\ TRACE.v.initial_images[TRACE_IDS.v[cur.inputs[j].name] + 1]
                      = cur.inputs[j].image
          /\ \A n \in Range(Graphs[cur.p].outputs) :
                /\ n \in DOMAIN TRACE_IDS.v
                /\ TRACE.v.initial_images[TRACE_IDS.v[n] + 1]
                      = ImageBuffer_new(cur.inputs[1].image.width, cur.inputs[1].image.height)

\* the ops that create an id, and those that log an Action
CreateOps == {"create_trace_id", "create_from_image", "create_image"}
LogOps == {"trace_get", "trace_set", "trace_clear", "trace_active"}

(***************************************************************************)
(* C21: the k-th create_trace_id on a Trace, made directly or through a    *)
(* TraceImage of the factory, returns TraceId(k - 1), stores the given     *)
(* image as initial_images[k - 1], leaves the earlier initial images as    *)
(* they are and appends no Action.                                         *)
(***************************************************************************)
C21_DenseIds ==
    [][(tracer' /= tracer /\ tracer'.last.op \in CreateOps) =>
          LET k == Len(tracer'.given)
          IN /\ k = Len(tracer.given) + 1
             /\ tracer'.last.id = k - 1
             /\ tracer'.ids = [j \in 1..k |-> j - 1]
             /\ tracer'.trace.initial_images
                   = Append(tracer.trace.initial_images, tracer'.last.image)
             /\ tracer'.trace.initial_images = tracer'.given
             /\ tracer'.trace.actions = tracer.trace.actions]_vars

\* a second id was created through the factory on a Trace that holds Actions
C21_Witness ==
    /\ tracer.last.op = "create_from_image"
    /\ tracer.ids = <<0, 1>>
    /\ tracer.last.id = 1
    /\ tracer.trace.initial_images[2] = from_raw(2, 1, <<200, 0>>)
    /\ Len(tracer.trace.actions) > 0

(***************************************************************************)
(* C22: each call of trace_get, trace_set, trace_clear or trace_active     *)
(* appends its one Action, with the id and arguments given, at the end of  *)
(* the actions and leaves the earlier Actions and initial_images as they   *)
(* are.                                                                    *)
(***************************************************************************)
C22_AppendsOne ==
    [][(tracer' /= tracer /\ tracer'.last.op \in LogOps) =>
          /\ tracer'.trace.actions = Append(tracer.trace.actions, tracer'.last.action)
          /\ tracer'.trace.initial_images = tracer.trace.initial_images
          /\ tracer'.last.action.k
                = CASE tracer'.last.op = "trace_get" -> "Read"
                    [] tracer'.last.op = "trace_set" -> "Write"
                    [] tracer'.last.op = "trace_clear" -> "Clear"
                    [] tracer'.last.op = "trace_active" -> "Active"]_vars

\* a Write to id 1 was logged after a Clear of id 0
C22_Witness ==
    /\ tracer.last.op = "trace_set"
    /\ tracer.trace.actions = <<Clear(0), Write(1, 1, 0, 200)>>

\* the operator a binary node prints, and whether a node is a binary node
op_of(k) == CASE k = "Add" -> "+" [] k = "Sub" -> "-" [] k = "Mul" -> "*" [] k = "Div" -> "/"
binary(e) == e.k \in {"Add", "Sub", "Mul", "Div"}

\* a child as the claim prints it: bare when its kind is a leaf kind
child_string(string, e, leaf_kinds) ==
    IF e.k \in leaf_kinds THEN string ELSE "(" \o string \o ")"

(***************************************************************************)
(* C23: pretty_print of a binary node is '<left> <op> <right>', a child    *)
(* bare iff it is a leaf (Var or Const of a VarExpr; Access or Const of a  *)
(* Definition) and in parentheses otherwise, the whole never in            *)
(* parentheses; a Func prints '<name>(x, y) = <definition>'; 3 * (x - 1)   *)
(* and f = g(x+1, y-1) + g(x-1, y) + 2 print as in the tests.              *)
(***************************************************************************)
C23_PrettyPrint ==
    printed.called =>
        \A i \in 1..2 :
            LET e == printed.asts[i]
                string == printed.strings[i]
            IN /\ (printed.of = "VarExpr" /\ binary(e)) =>
                     string = child_string(pretty_print("VarExpr", e.l), e.l, {"Var", "Const"})
                                \o " " \o op_of(e.k) \o " "
                                \o child_string(pretty_print("VarExpr", e.r), e.r, {"Var", "Const"})
               /\ (printed.of = "Definition" /\ binary(e)) =>
                     string = child_string(pretty_print("Definition", e.l), e.l, {"Access", "Const"})
                                \o " " \o op_of(e.k) \o " "
                                \o child_string(pretty_print("Definition", e.r), e.r, {"Access", "Const"})
               /\ (printed.of = "Func") =>
                     string = e.name \o "(x, y) = " \o pretty_print("Definition", e.definition)
               /\ (printed.of = "VarExpr" /\ e = VMul(VConst(3), VSub(X, VConst(1)))) =>
                     string = "3 * (x - 1)"
               /\ (printed.of = "VarExpr" /\ e = VAdd(X, Y)) => string = "x + y"
               /\ (printed.of = "Func"
                     /\ e = Func("f", Add(Add(Access("g", VAdd(X, VConst(1)), VSub(Y, VConst(1))),
                                              Access("g", VSub(X, VConst(1)), Y)), Const(2)))) =>
                     string = "f(x, y) = (g(x + 1, y - 1) + g(x - 1, y)) + 2"

\* a Definition with a binary node and a Param as children was printed after
\* the VarExpr-free sum of the test
C23_Witness ==
    /\ printed.called
    /\ printed.of = "Definition"
    /\ printed.strings = <<"(g(x + 1, y - 1) + g(x - 1, y)) + 2", "(p) * (g(x - 1, y) + 2)">>

(***************************************************************************)
(* C24: two structurally distinct VarExprs, and two structurally distinct  *)
(* Definitions, print as different strings.                                *)
(***************************************************************************)
C24_Injective ==
    (printed.called /\ printed.of \in {"VarExpr", "Definition"}
        /\ printed.asts[1] /= printed.asts[2])
    => printed.strings[1] /= printed.strings[2]

\* no u8 sum of blur3_reference overflows on the image
sums_fit(image) ==
    \A x \in 1..(image.width - 2), y \in 0..(image.height - 1) :
        image.height >= 3 =>
        get(image, x - 1, y) + get(image, x, y) + get(image, x + 1, y) <= 255

\* the mean of the three 3-pixel row means around the interior pixel (x, y)
mean_of_row_means(image, x, y) ==
    LET row(yy) == (get(image, x - 1, yy) + get(image, x, yy) + get(image, x + 1, yy)) \div 3
    IN (row(y - 1) + row(y) + row(y + 1)) \div 3

\* the blur of the claim: interior pixels blurred, border pixels 0
blur_of(image) ==
    image_from(image.width, image.height,
        [x \in 0..(image.width - 1), y \in 0..(image.height - 1) |->
            IF x \in 1..(image.width - 2) /\ y \in 1..(image.height - 2)
            THEN mean_of_row_means(image, x, y) ELSE 0])

\* the blur function was given a strip or tile size that divides the image
divides(image, args) ==
    CASE Len(args) = 0 -> TRUE
      [] Len(args) = 1 -> image.height % args[1] = 0
      [] Len(args) = 2 -> image.width % args[1] = 0 /\ image.height % args[2] = 0

(***************************************************************************)
(* C25: for every image of at least 1 by 1 pixels on which the u8 sums of  *)
(* blur3_reference do not overflow, blur3_inline, blur3_intermediate and   *)
(* blur3_split_y (with a strip_height dividing the height) of lib.rs       *)
(* return the image blur3_reference returns: interior pixels the mean of   *)
(* the three row means, border pixels 0.                                   *)
(***************************************************************************)
C25_LibBlurs ==
    (blurred.called /\ blurred.module = "lib" /\ sums_fit(blurred.image)
        /\ divides(blurred.image, blurred.args))
    => /\ blurred.actual = blurred.expected
       /\ blurred.expected = BlurReturned(blur_of(blurred.image))

\* blur3_split_y with two strips of two rows blurred a 3 by 4 image with
\* bright pixels into an image with different interior pixels
C25_Witness ==
    /\ blurred.called
    /\ blurred.module = "lib"
    /\ blurred.blur_function = "blur3_split_y"
    /\ blurred.args = <<2>>
    /\ sums_fit(blurred.image)
    /\ dimensions(blurred.image) = <<3, 4>>
    /\ ~blurred.actual.panic
    /\ blurred.actual = blurred.expected
    /\ get(blurred.actual.image, 1, 1) > get(blurred.actual.image, 1, 2)
    /\ get(blurred.actual.image, 1, 2) > 1

(***************************************************************************)
(* C26: blur3_split_y (strip_height dividing the height) and blur3_tiled   *)
(* (tile sizes dividing the dimensions) of the blur3 module return the     *)
(* image blur3_reference returns, for every image.                         *)
(***************************************************************************)
C26_Blur3Module ==
    (blurred.called /\ blurred.module = "blur3" /\ sums_fit(blurred.image)
        /\ divides(blurred.image, blurred.args))
    => blurred.actual = blurred.expected

\* the test of blur3_split_y with strips of 5 rows ran on the 10 by 10 image
\* of the tests, and its assert_eq! failed
C26_TestFails ==
    /\ blurred.called
    /\ blurred.module = "blur3"
    /\ blurred.image = tests_image(10, 10)
    /\ blurred.blur_function = "blur3_split_y"
    /\ blurred.args = <<5>>
    /\ blurred.actual /= blurred.expected

\* the test of blur3_split_y with strips of 5 rows passed on the 5 by 10
\* image of lib.rs
C25_TestPasses ==
    /\ blurred.called
    /\ blurred.module = "lib"
    /\ blurred.image = tests_image(5, 10)
    /\ blurred.args = <<5>>
    /\ blurred.actual = blurred.expected

\* the stores among the operations of a call, as body executions
is_store(op) == op.k = "store"
executions(ops) ==
    LET stores == SelectSeq(ops, is_store)
    IN [k \in 1..Len(stores) |-> [name |-> stores[k].name, x |-> stores[k].x, y |-> stores[k].y]]

\* W * H body executions per Func, Func after Func: row-major where the
\* schedule of the Func lists Y first, column-major where it lists X first
loop_nest(graph, W, H) ==
    [k \in 1..(Len(graph.funcs) * W * H) |->
        LET func == graph.funcs[((k - 1) \div (W * H)) + 1]
            j == (k - 1) % (W * H)
        IN IF graph.schedule[func.name] = <<"Y", "X">>
           THEN [name |-> func.name, x |-> j % W, y |-> j \div W]
           ELSE [name |-> func.name, x |-> j \div H, y |-> j % H]]

\* the executions so far are the first of the loop nest, and the body about
\* to run is the next one
C27_InOrder ==
    /\ pc \in {"running", "crashed"} =>
          LET graph == Graphs[cur.p]
              all == loop_nest(graph, x_max(graph, cur.bufs), y_max(graph, cur.bufs))
              done == executions(cur.ops)
          IN /\ Len(done) <= Len(all)
             /\ done = SubSeq(all, 1, Len(done))
             /\ cur.pos = End => done = all
             /\ cur.pos /= End =>
                   /\ Len(done) < Len(all)
                   /\ all[Len(done) + 1] = [name |-> CurFunc.name, x |-> CurX, y |-> CurY]
    /\ result.status = "ok" =>
          LET graph == Graphs[result.p]
              image == result.inputs[1].image
          IN executions(result.ops) = loop_nest(graph, image.width, image.height)

(***************************************************************************)
(* C27: the loop nest of each Func executes its body exactly once for each *)
(* (x, y) of [0, W) x [0, H), W and H being the extents of the final       *)
(* Func's buffer: row-major when the schedule lists Y first, column-major  *)
(* when it lists X first, from 0 in steps of 1, never when W = 0 or        *)
(* H = 0; and the generated function ends for every W, H >= 0.             *)
(***************************************************************************)
C27_LoopNest == []C27_InOrder /\ ((pc = "running") ~> (pc /= "running"))

\* the chain pipeline returned after the row-major nest of f and the
\* column-major nest of g over 2 x 2 pixels
C27_Witness ==
    /\ result.status = "ok"
    /\ Graphs[result.p].name = "chain"
    /\ executions(result.ops)
         = <<[name |-> "f", x |-> 0, y |-> 0], [name |-> "f", x |-> 1, y |-> 0],
             [name |-> "f", x |-> 0, y |-> 1], [name |-> "f", x |-> 1, y |-> 1],
             [name |-> "g", x |-> 0, y |-> 0], [name |-> "g", x |-> 0, y |-> 1],
             [name |-> "g", x |-> 1, y |-> 0], [name |-> "g", x |-> 1, y |-> 1]>>

\* the Writes of a trace to an id, in order
writes_to(tr, id) ==
    LET to_id(action) == action.k = "Write" /\ action.id = id
    IN SelectSeq(tr.actions, to_id)

RECURSIVE replay(_, _)
\* the image after the writes are applied in order
replay(image, writes) ==
    IF writes = <<>> THEN image
    ELSE LET before == replay(image, SubSeq(writes, 1, Len(writes) - 1))
             write == writes[Len(writes)]
         IN [before EXCEPT !.buffer[write.y * image.width + write.x + 1] = write.c]

(***************************************************************************)
(* C28: after an invocation with tracing, the Writes of the trace to the   *)
(* id of each output, replayed in order onto the zero initial image of     *)
(* that id, give the returned image of the output; each pixel of an output *)
(* is the target of exactly one Write, which carries its final value; and  *)
(* no Write targets the id of an input.                                    *)
(***************************************************************************)
C28_Replay ==
    (result.status = "ok" /\ result.api = "process_with_tracing") =>
        LET tr == result.trace.v
            outputs == Graphs[result.p].outputs
            n == Len(result.inputs)
            image == result.inputs[1].image
        IN /\ \A k \in 1..Len(outputs) :
                LET id == n + k - 1
                    returned == result.images[outputs[k]]
                IN /\ tr.initial_images[id + 1] = ImageBuffer_new(image.width, image.height)
                   /\ replay(tr.initial_images[id + 1], writes_to(tr, id)) = returned
                   /\ \A x \in 0..(image.width - 1), y \in 0..(image.height - 1) :
                         \E i \in 1..Len(tr.actions) :
                            /\ tr.actions[i] = Write(id, x, y, get(returned, x, y))
                            /\ \A j \in 1..Len(tr.actions) :
                                  (tr.actions[j].k = "Write" /\ tr.actions[j].id = id
                                     /\ tr.actions[j].x = x /\ tr.actions[j].y = y) => j = i
           /\ \A i \in 1..Len(tr.actions) :
                 tr.actions[i].k = "Write" => tr.actions[i].id \in n..(n + Len(outputs) - 1)

\* a traced invocation of the chain pipeline on a 2 x 2 image returned both
\* outputs with non-zero pixels
C28_Witness ==
    /\ result.status = "ok"
    /\ result.api = "process_with_tracing"
    /\ Graphs[result.p].name = "chain"
    /\ dimensions(result.inputs[1].image) = <<2, 2>>
    /\ get(result.images["f"], 1, 1) = 203
    /\ get(result.images["g"], 1, 1) = 150
    /\ Len(writes_to(result.trace.v, 2)) = 4

(***************************************************************************)
(* C29: while all buffers of an invocation share the dimensions (W, H),    *)
(* every load is at the offset y' * width + x' of the buffer read, within  *)
(* [0, width * height); every store is at y * W + x, within [0, W * H), of *)
(* the storing Func's own output buffer, never of an input buffer or of    *)
(* another Func's buffer.                                                  *)
(***************************************************************************)
C29_Offsets ==
    (pc \in {"running", "crashed"}
        /\ \A b \in 1..Len(cur.bufs) : dimensions(cur.bufs[b]) = dimensions(cur.bufs[1]))
    => LET graph == Graphs[cur.p]
           W == cur.bufs[1].width
           H == cur.bufs[1].height
       IN \A i \in 1..Len(cur.ops) :
             LET op == cur.ops[i]
             IN /\ op.buf \in 1..Len(cur.bufs)
                /\ op.offset = op.y * W + op.x
                /\ op.offset >= 0
                /\ op.offset < W * H
                /\ op.k = "store" =>
                      /\ op.buf > Len(graph.inputs)
                      /\ graph.funcs[op.buf - Len(graph.inputs)].name = op.name

\* the second Func of the chain pipeline loaded the last pixel of the first
\* Func's buffer and stored the last pixel of its own
C29_Witness ==
    /\ AtRet
    /\ Graphs[cur.p].name = "chain"
    /\ \E i \in 1..(Len(cur.ops) - 1) :
          /\ cur.ops[i] = [k |-> "load", name |-> "f", x |-> 1, y |-> 1, buf |-> 2, offset |-> 3]
          /\ cur.ops[i + 1].k = "store"
          /\ cur.ops[i + 1].buf = 3
          /\ cur.ops[i + 1].offset = 3

\* the number of times an action is in a trace
count(tr, action) == Cardinality({i \in 1..Len(tr.actions) : tr.actions[i] = action})

(***************************************************************************)
(* C30: for a graph in dependency order, two invocations with the same     *)
(* inputs under any two schedule assignments return the same output        *)
(* images; their traces hold the same actions, in an order that may        *)
(* differ.                                                                 *)
(***************************************************************************)
C30_ScheduleIndependent ==
    (result.status = "ok" /\ kept.status = "ok" /\ ncalls = 2
        /\ pipeline_of(kept.p) = pipeline_of(result.p) /\ kept.inputs = result.inputs
        /\ ordered(Graphs[result.p]))
    => /\ result.images = kept.images
       /\ result.trace.v.initial_images = kept.trace.v.initial_images
       /\ Len(result.trace.v.actions) = Len(kept.trace.v.actions)
       /\ \A i \in 1..Len(result.trace.v.actions) :
             count(result.trace.v, result.trace.v.actions[i])
                = count(kept.trace.v, result.trace.v.actions[i])

\* the chain pipeline returned the same non-zero images with f by_row and g
\* by_column as with f by_column and g by_row, and a different trace
C30_Witness ==
    /\ result.status = "ok" /\ kept.status = "ok" /\ ncalls = 2
    /\ Graphs[kept.p].name = "chain" /\ Graphs[result.p].name = "chain"
    /\ Graphs[kept.p].schedule["f"] = by_row /\ Graphs[kept.p].schedule["g"] = by_column
    /\ Graphs[result.p].schedule["f"] = by_column /\ Graphs[result.p].schedule["g"] = by_row
    /\ kept.inputs = result.inputs
    /\ dimensions(result.inputs[1].image) = <<2, 2>>
    /\ result.images = kept.images
    /\ get(result.images["g"], 0, 1) = 150
    /\ get(result.images["g"], 1, 0) = 6
    /\ result.trace /= kept.trace

====
